---- MODULE Spec2Model ----
(***************************************************************************)
(* Account and session authority of the ambulance tracker backend          *)
(* (SqlAccountManager over the accounts and sessions tables).              *)
(*                                                                         *)
(* The state is the content of the two tables.  Every handler of the       *)
(* AccountManager trait is one action; `last` holds the value the handler  *)
(* returned to its caller.                                                  *)
(***************************************************************************)
EXTENDS Integers, Sequences, FiniteSets, TLC

\* ------------------------------------------------------------------ bounds
\* Account ids (user_id, a UUID) the store may hand out.
MaxAccounts == 3
\* Session tokens (32 random bytes) random_session may produce.
MaxTokens == 1
\* Site administrators the deployment bootstraps with create_site_admin.
MaxSiteAdmins == 1
\* Salts (16 random bytes) random_salt may produce.
MaxSalts == 1

\* Session tokens random_session may produce in SpecSessions, the
\* specification of concurrent sessions.
MaxSessionTokens == 2
\* Calls that SpecInterleaved has in flight at once.
MaxCalls == 1
\* Ambulances, and the instants of their fixes, of SpecAmbulances.
MaxAmbulances == 2
MaxTime == 2
\* Phone entries stored at once in SpecSettings.
MaxPhones == 2
\* Longest password SpecRandomPassword asks random_password for.
MaxLength == 3
\* Rows of archive_etas in SpecArchiveEta.
MaxArchive == 2

AccountIds == 1..MaxAccounts
Tokens == 1..MaxTokens
Salts == 1..MaxSalts
Usernames == {"root", "a1", "u1"}
\* The tokens and the usernames of SpecSessions.
SessionTokens == 1..MaxSessionTokens
SessionUsernames == {"root", "a1"}
\* The calls in flight of SpecInterleaved, and the accounts its callers ask
\* create_account for.
Calls == 1..MaxCalls
\* The tracker's inputs: ambulance ids, instants (DateTime<Utc>), points and
\* names.
AmbulanceIds == 1..MaxAmbulances
Times == 0..MaxTime
Points == {<<0, 0>>, <<2, 2>>}
AmbulanceNames == {"Ambulance 1"}
\* The settings manager's inputs: phone ids, phone numbers (ten digits),
\* labels, and durations as Duration::new(secs, nanos): 15 minutes, 2 hours,
\* 7 hours, and half a microsecond.
PhoneIds == 1..MaxPhones
PhoneNumbers == {<<"9", "8", "7", "6", "5", "4", "3", "2", "1", "0">>}
Labels == {"Home"}
Durations ==
    {[secs |-> 60 * 15, nanos |-> 0],
     [secs |-> 7200, nanos |-> 0],
     [secs |-> 7 * 60 * 60, nanos |-> 0],
     [secs |-> 0, nanos |-> 500]}
InterleavedCreates == {<<"Admin", "a1">>, <<"User", "u1">>}

\* Outputs of OsRng.try_next_u64 the model draws from.  A u64 draw is at
\* least 76 except with probability 76 / 2^64.
OsRng == {80, 157}
\* The outputs of OsRng.try_next_u64 in SpecRandomPassword, below and above
\* the length of the alphabet.
try_next_u64 == {1, 40, 80, 157}

\* ------------------------------------------------------------------- roles
AccountRole == {"User", "Admin", "SiteAdmin"}

SessionRetrievalPurpose == {"ChangePassword", "Other"}

\* A faulty can_own, in which a role also owns itself.
can_own_reflexive(self, property) ==
    \/ self = "SiteAdmin" /\ property \in {"Admin", "SiteAdmin"}
    \/ self = "Admin" /\ property \in {"User", "Admin"}

\* AccountRole::can_own: whether self may own an account of role property.
can_own(self, property) ==
    CASE self = "SiteAdmin" /\ property = "Admin" -> TRUE
      [] self = "Admin" /\ property = "User" -> TRUE
      [] OTHER -> FALSE

\* --------------------------------------------------------------- credentials
ALLOWED_CHARS ==
    << "A", "B", "C", "D", "E", "F", "G", "H", "I", "J", "K", "L",
       "M", "N", "O", "P", "Q", "R", "S", "T", "U", "V", "W", "X", "Y", "Z",
       "a", "b", "c", "d", "e", "f", "g", "h", "i", "j", "k", "l", "m", "n",
       "o", "p", "q", "r", "s", "t", "u", "v", "w", "x", "y", "z",
       "0", "1", "2", "3", "4", "5", "6", "7", "8", "9",
       "!", "@", "#", "$", "%", "^", "&", "*", "(", ")", "-", "_", "=", "+" >>

\* The loop of random_password: `remaining` iterations left, `rand` the
\* accumulator, `password` the characters pushed so far.  The value is the
\* set of strings the loop can end with, one per sequence of RNG draws.
RECURSIVE random_password_loop(_, _, _)
random_password_loop(remaining, rand, password) ==
    IF remaining = 0
    THEN {password}
    ELSE IF rand < Len(ALLOWED_CHARS)
         THEN UNION { random_password_loop(
                          remaining - 1, rand + d,
                          Append(password,
                                 ALLOWED_CHARS[((rand + d) % Len(ALLOWED_CHARS)) + 1]))
                      : d \in OsRng }
         ELSE random_password_loop(
                  remaining - 1, rand,
                  Append(password, ALLOWED_CHARS[(rand % Len(ALLOWED_CHARS)) + 1]))

\* A faulty random_password, whose loop never runs.
random_password_empty(length) == {<< >>}

\* random_password(length): the strings it can return.
random_password(length) == random_password_loop(length, 0, << >>)

\* Length of the temporary passwords of unchecked_create_account and
\* reset_password.
TempPasswordLength == 16

\* random_salt: the salts it can return.
random_salt == Salts

\* random_session: the tokens it can return.
random_session == Tokens

\* hash_password: Argon2 of the password under the salt, deterministic and
\* collision free: two hashes are equal iff password and salt are.
hash_password(password, salt) == [argon2 |-> password, salt |-> salt]

\* The temporary passwords unchecked_create_account and reset_password can
\* hand out.
TempPasswords == random_password(TempPasswordLength)

\* The passwords a caller types: a temporary password it was handed, or the
\* same strings as passwords of its own choosing.
Passwords == TempPasswords

\* -------------------------------------------------------------------- state
VARIABLES
    accounts,   \* table accounts: user_id -> row
    sessions,   \* table sessions: session_id -> user_id
    changed,    \* history: accounts whose change_password has succeeded
    last,       \* the last call and what it returned
    phones,     \* table phone_numbers: phone_id -> row
    ambulances, \* table ambulances: ambulance_id -> row
    pending,    \* calls in flight between two statements: call -> what it
                \* was given and has read so far
    archive_etas, \* table archive_etas: its rows, in the order of insertion
    fixes       \* history: ambulance_id -> the fixes (fetched, location)
                \* that add_ambulance and update_ambulance were called with

vars ==
    <<accounts, sessions, changed, last, phones, ambulances, pending,
      archive_etas, fixes>>

Some(x) == <<x>>
None == << >>

Returned(op, result, value) == [op |-> op, result |-> result, value |-> value]

\* A table as a function from its primary key to its rows.
EmptyTable == [k \in {} |-> k]
Insert(table, key, row) ==
    [k \in DOMAIN table \cup {key} |-> IF k = key THEN row ELSE table[k]]
Delete(table, keys) == [k \in DOMAIN table \ keys |-> table[k]]

Init ==
    /\ accounts = EmptyTable
    /\ sessions = EmptyTable
    /\ changed = {}
    /\ last = Returned("new", "Ok", None)
    /\ phones = EmptyTable
    /\ ambulances = EmptyTable
    /\ pending = EmptyTable
    /\ archive_etas = << >>
    /\ fixes = EmptyTable

\* --------------------------------------------------------------- the schema
\* accounts.password_reset_needed is not written by the INSERT of
\* unchecked_create_account: the row gets the column's default.
password_reset_needed_default == TRUE

\* accounts.hospital and accounts.pref_eta are not written by the INSERT
\* either.  hospital is nullable; pref_eta is an interval of 15 minutes,
\* held as <<seconds, microseconds of the second>>.
hospital_default == None
pref_eta_default == [months |-> 0, days |-> 0, microseconds |-> <<900, 0>>]

\* Whether a stored row has the username (WHERE username=$1).
username_taken(username) ==
    \E a \in DOMAIN accounts : accounts[a].username = username

\* accounts.username is unique: an INSERT of a taken name fails.
unique_username_violated(username) == username_taken(username)

\* sessions.session_id is the key of its table: an INSERT of a stored token
\* fails.
unique_session_violated(session) == session \in DOMAIN sessions

\* The account ids a call in flight holds: the id it was given and has
\* found a row for.
in_flight_ids ==
    {id \in AccountIds :
        \E call \in DOMAIN pending :
            \/ pending[call].op = "create_account"
               /\ pending[call].owner_id = id
            \/ pending[call].op = "change_password"
               /\ pending[call].account_id = id
            \/ pending[call].op = "login"
               /\ pending[call].user_id = id}

\* accounts.user_id is generated by the store (RETURNING user_id): an id no
\* stored row has or had.  Ids are opaque and every caller's input ranges
\* over all of them, so the smallest id that no row has and no call in
\* flight holds stands for any fresh id.
generated_user_ids ==
    LET unused == AccountIds \ (DOMAIN accounts \cup in_flight_ids)
    IN  {id \in unused : \A other \in unused : id <= other}

\* accounts.owner_id references accounts: an INSERT of a row whose owner is
\* not stored fails.
owner_reference_violated(owner) ==
    owner # None /\ owner[1] \notin DOMAIN accounts

\* sessions.user_id references accounts: an INSERT of a session of an
\* account that is not stored fails.
session_reference_violated(user_id) == user_id \notin DOMAIN accounts

\* Rows that go with the rows `ids` when these are deleted: the accounts
\* they own, and the accounts those own.
RECURSIVE owned_cascade(_)
owned_cascade(ids) ==
    LET more == {a \in DOMAIN accounts :
                    \E o \in ids : accounts[a].owner_id = Some(o)}
    IN  IF more \subseteq ids THEN ids ELSE owned_cascade(ids \cup more)

\* sessions.user_id references accounts: the sessions of deleted accounts go.
sessions_cascade(ids) ==
    {t \in DOMAIN sessions : sessions[t] \in ids}

\* phone_numbers.user_id references accounts: the phones of deleted accounts
\* go.  What the handlers of SqlAccountManager do to the tables they do
\* not name: the phones of the accounts a step deletes are deleted with
\* them, the ambulances and the calls in flight are left alone.
outside_accounts ==
    /\ phones' = Delete(phones, {p \in DOMAIN phones :
                                    phones[p].user_id \notin DOMAIN accounts'})
    /\ UNCHANGED <<ambulances, pending, archive_etas, fixes>>

\* ----------------------------------------------------------------- handlers
\* A faulty unchecked_create_account, whose INSERT takes over the row of a
\* taken username (ON CONFLICT (username) DO UPDATE).
unchecked_create_account_upsert(op, username, role, owner) ==
    \E password \in TempPasswords, salt \in random_salt :
        IF owner_reference_violated(owner)
        THEN /\ last' = Returned(op, "Other", None)
             /\ UNCHANGED <<accounts, sessions, changed>>
        ELSE \E account_id \in
                    IF username_taken(username)
                    THEN {a \in DOMAIN accounts :
                              accounts[a].username = username}
                    ELSE generated_user_ids :
                /\ accounts' = [a \in DOMAIN accounts \cup {account_id} |->
                       IF a = account_id
                       THEN [username |-> username,
                             password_hash |-> hash_password(password, salt),
                             password_salt |-> salt,
                             role |-> role,
                             owner_id |-> owner,
                             password_reset_needed |->
                                 password_reset_needed_default,
                             hospital |-> hospital_default,
                             pref_eta |-> pref_eta_default]
                       ELSE accounts[a]]
                /\ last' = Returned(op, "Ok", <<account_id, password>>)
                /\ UNCHANGED <<sessions, changed>>

\* A faulty unchecked_create_account, whose INSERT does not look at the
\* owner it writes.
unchecked_create_account_unreferenced(op, username, role, owner) ==
    \E password \in TempPasswords, salt \in random_salt :
        IF unique_username_violated(username)
        THEN /\ last' = Returned(op, "Other", None)
             /\ UNCHANGED <<accounts, sessions, changed>>
        ELSE \E account_id \in generated_user_ids :
                /\ accounts' = Insert(accounts, account_id,
                       [username |-> username,
                        password_hash |-> hash_password(password, salt),
                        password_salt |-> salt,
                        role |-> role,
                        owner_id |-> owner,
                        password_reset_needed |-> password_reset_needed_default,
                        hospital |-> hospital_default,
                        pref_eta |-> pref_eta_default])
                /\ last' = Returned(op, "Ok", <<account_id, password>>)
                /\ UNCHANGED <<sessions, changed>>

\* SqlAccountManager::unchecked_create_account, returning under the name
\* `op` of the public operation that called it.
unchecked_create_account(op, username, role, owner) ==
    \E password \in TempPasswords, salt \in random_salt :
        IF \/ unique_username_violated(username)
           \/ owner_reference_violated(owner)
        THEN /\ last' = Returned(op, "Other", None)
             /\ UNCHANGED <<accounts, sessions, changed>>
        ELSE \E account_id \in generated_user_ids :
                /\ accounts' = Insert(accounts, account_id,
                       [username |-> username,
                        password_hash |-> hash_password(password, salt),
                        password_salt |-> salt,
                        role |-> role,
                        owner_id |-> owner,
                        password_reset_needed |-> password_reset_needed_default,
                        hospital |-> hospital_default,
                        pref_eta |-> pref_eta_default])
                /\ last' = Returned(op, "Ok", <<account_id, password>>)
                /\ UNCHANGED <<sessions, changed>>

\* SqlAccountManager::create_site_admin
create_site_admin(username) ==
    /\ Cardinality({a \in DOMAIN accounts : accounts[a].role = "SiteAdmin"})
           < MaxSiteAdmins
    /\ unchecked_create_account("create_site_admin", username, "SiteAdmin", None)

\* A faulty create_account, without the can_own test.
create_account_no_role_check(owner_id, account_role, username) ==
    IF owner_id \notin DOMAIN accounts
    THEN /\ last' = Returned("create_account", "OwnerNotFound", None)
         /\ UNCHANGED <<accounts, sessions, changed>>
    ELSE unchecked_create_account("create_account", username,
                                  account_role, Some(owner_id))

\* A faulty create_account, which inserts the row and then reports the role
\* pair.
create_account_check_after_insert(owner_id, account_role, username) ==
    IF owner_id \notin DOMAIN accounts
    THEN /\ last' = Returned("create_account", "OwnerNotFound", None)
         /\ UNCHANGED <<accounts, sessions, changed>>
    ELSE IF can_own(accounts[owner_id].role, account_role)
         THEN unchecked_create_account("create_account", username,
                                       account_role, Some(owner_id))
         ELSE \E password \in TempPasswords, salt \in random_salt,
                 account_id \in generated_user_ids :
                /\ ~username_taken(username)
                /\ accounts' = Insert(accounts, account_id,
                       [username |-> username,
                        password_hash |-> hash_password(password, salt),
                        password_salt |-> salt,
                        role |-> account_role,
                        owner_id |-> Some(owner_id),
                        password_reset_needed |-> password_reset_needed_default,
                        hospital |-> hospital_default,
                        pref_eta |-> pref_eta_default])
                /\ last' = Returned("create_account", "InvalidOwnerRole", None)
                /\ UNCHANGED <<sessions, changed>>

\* A faulty create_account, which refuses a role no owner could own before it
\* looks the owner up.
create_account_role_before_owner(owner_id, account_role, username) ==
    IF \A owner_role \in AccountRole : ~can_own(owner_role, account_role)
    THEN /\ last' = Returned("create_account", "InvalidOwnerRole", None)
         /\ UNCHANGED <<accounts, sessions, changed>>
    ELSE IF owner_id \notin DOMAIN accounts
         THEN /\ last' = Returned("create_account", "OwnerNotFound", None)
              /\ UNCHANGED <<accounts, sessions, changed>>
         ELSE IF can_own(accounts[owner_id].role, account_role)
              THEN unchecked_create_account("create_account", username,
                                            account_role, Some(owner_id))
              ELSE /\ last' = Returned("create_account", "InvalidOwnerRole", None)
                   /\ UNCHANGED <<accounts, sessions, changed>>

\* SqlAccountManager::create_account
create_account(owner_id, account_role, username) ==
    IF owner_id \notin DOMAIN accounts
    THEN /\ last' = Returned("create_account", "OwnerNotFound", None)
         /\ UNCHANGED <<accounts, sessions, changed>>
    ELSE IF can_own(accounts[owner_id].role, account_role)
         THEN unchecked_create_account("create_account", username,
                                       account_role, Some(owner_id))
         ELSE /\ last' = Returned("create_account", "InvalidOwnerRole", None)
              /\ UNCHANGED <<accounts, sessions, changed>>

\* A faulty WHERE clause, without `AND owner_id=$2`.
owned_row_ignores_owner(owner_id, account_id) ==
    account_id \in DOMAIN accounts

\* The rows the WHERE clause of reset_password and delete_account selects.
owned_row(owner_id, account_id) ==
    /\ account_id \in DOMAIN accounts
    /\ accounts[account_id].owner_id = Some(owner_id)

\* A variant of the UPDATE of reset_password, which also sets
\* password_reset_needed.
reset_password_update_sets_flag(account_id, password, salt) ==
    [accounts EXCEPT
        ![account_id].password_salt = salt,
        ![account_id].password_hash = hash_password(password, salt),
        ![account_id].password_reset_needed = TRUE]

\* The UPDATE of reset_password: the accounts table after it.
reset_password_update(account_id, password, salt) ==
    [accounts EXCEPT
        ![account_id].password_salt = salt,
        ![account_id].password_hash = hash_password(password, salt)]

\* A faulty reset_password, which ends the sessions of the account whose
\* password it resets.
reset_password_ends_sessions(owner_id, account_id) ==
    \E password \in TempPasswords, salt \in random_salt :
        IF owned_row(owner_id, account_id)
        THEN /\ accounts' = reset_password_update(account_id, password, salt)
             /\ sessions' = Delete(sessions, sessions_cascade({account_id}))
             /\ last' = Returned("reset_password", "Ok", <<password>>)
             /\ UNCHANGED changed
        ELSE /\ last' = Returned("reset_password", "UserNotFound", None)
             /\ UNCHANGED <<accounts, sessions, changed>>

\* SqlAccountManager::reset_password
reset_password(owner_id, account_id) ==
    \E password \in TempPasswords, salt \in random_salt :
        IF owned_row(owner_id, account_id)
        THEN /\ accounts' = reset_password_update(account_id, password, salt)
             /\ last' = Returned("reset_password", "Ok", <<password>>)
             /\ UNCHANGED <<sessions, changed>>
        ELSE /\ last' = Returned("reset_password", "UserNotFound", None)
             /\ UNCHANGED <<accounts, sessions, changed>>

\* A faulty delete_account, which returns Ok when its DELETE matched no row.
delete_account_ok_on_no_match(owner_id, account_id) ==
    IF owned_row(owner_id, account_id)
    THEN LET gone == owned_cascade({account_id})
         IN  /\ accounts' = Delete(accounts, gone)
             /\ sessions' = Delete(sessions, sessions_cascade(gone))
             /\ changed' = changed \ gone
             /\ last' = Returned("delete_account", "Ok", None)
    ELSE /\ last' = Returned("delete_account", "Ok", None)
         /\ UNCHANGED <<accounts, sessions, changed>>

\* A faulty delete_account, which tells a stored account of another owner
\* from a missing one.
delete_account_reports_not_owned(owner_id, account_id) ==
    IF owned_row(owner_id, account_id)
    THEN LET gone == owned_cascade({account_id})
         IN  /\ accounts' = Delete(accounts, gone)
             /\ sessions' = Delete(sessions, sessions_cascade(gone))
             /\ changed' = changed \ gone
             /\ last' = Returned("delete_account", "Ok", None)
    ELSE /\ last' = Returned("delete_account",
                             IF account_id \in DOMAIN accounts
                             THEN "Other" ELSE "UserNotFound", None)
         /\ UNCHANGED <<accounts, sessions, changed>>

\* SqlAccountManager::delete_account
delete_account(owner_id, account_id) ==
    IF owned_row(owner_id, account_id)
    THEN LET gone == owned_cascade({account_id})
         IN  /\ accounts' = Delete(accounts, gone)
             /\ sessions' = Delete(sessions, sessions_cascade(gone))
             /\ changed' = changed \ gone
             /\ last' = Returned("delete_account", "Ok", None)
    ELSE /\ last' = Returned("delete_account", "UserNotFound", None)
         /\ UNCHANGED <<accounts, sessions, changed>>

\* A faulty UPDATE of change_password, without password_reset_needed=false.
change_password_update_keeps_flag(account_id, new_password, new_salt) ==
    [accounts EXCEPT
        ![account_id].password_salt = new_salt,
        ![account_id].password_hash = hash_password(new_password, new_salt)]

\* A faulty UPDATE of change_password, without password_hash=$3.
change_password_update_keeps_hash(account_id, new_password, new_salt) ==
    [accounts EXCEPT
        ![account_id].password_salt = new_salt,
        ![account_id].password_reset_needed = FALSE]

\* The UPDATE of change_password: the accounts table after it.
change_password_update(account_id, new_password, new_salt) ==
    [accounts EXCEPT
        ![account_id].password_salt = new_salt,
        ![account_id].password_hash = hash_password(new_password, new_salt),
        ![account_id].password_reset_needed = FALSE]

\* A faulty change_password, which does not compare current_password with
\* the stored credential.
change_password_no_check(account_id, current_password, new_password) ==
    IF account_id \notin DOMAIN accounts
    THEN /\ last' = Returned("change_password", "UserNotFound", None)
         /\ UNCHANGED <<accounts, sessions, changed>>
    ELSE \E new_salt \in random_salt :
            /\ accounts' = change_password_update(
                               account_id, new_password, new_salt)
            /\ changed' = changed \cup {account_id}
            /\ last' = Returned("change_password", "Ok", None)
            /\ UNCHANGED sessions

\* SqlAccountManager::change_password
change_password(account_id, current_password, new_password) ==
    IF account_id \notin DOMAIN accounts
    THEN /\ last' = Returned("change_password", "UserNotFound", None)
         /\ UNCHANGED <<accounts, sessions, changed>>
    ELSE LET current_hash == accounts[account_id].password_hash
             current_salt == accounts[account_id].password_salt
             check_hash == hash_password(current_password, current_salt)
         IN  IF check_hash = current_hash
             THEN \E new_salt \in random_salt :
                    /\ accounts' = change_password_update(
                                       account_id, new_password, new_salt)
                    /\ changed' = changed \cup {account_id}
                    /\ last' = Returned("change_password", "Ok", None)
                    /\ UNCHANGED sessions
             ELSE /\ last' = Returned("change_password", "IncorrectPassword", None)
                  /\ UNCHANGED <<accounts, sessions, changed>>

\* A faulty destroy_session, which reports a token that matches no row.
destroy_session_reports_missing(token) ==
    IF token \in DOMAIN sessions
    THEN /\ sessions' = Delete(sessions, {token})
         /\ last' = Returned("destroy_session", "Ok", None)
         /\ UNCHANGED <<accounts, changed>>
    ELSE /\ last' = Returned("destroy_session", "Other", None)
         /\ UNCHANGED <<accounts, sessions, changed>>

\* SqlAccountManager::destroy_session
destroy_session(token) ==
    /\ sessions' = Delete(sessions, {token})
    /\ last' = Returned("destroy_session", "Ok", None)
    /\ UNCHANGED <<accounts, changed>>

\* A faulty login, which reports a wrong password as an unknown user.
login_session_collapsed(username, password, session) ==
    IF ~username_taken(username)
    THEN /\ last' = Returned("login", "UserNotFound", None)
         /\ UNCHANGED <<accounts, sessions, changed>>
    ELSE LET user_id == CHOOSE a \in DOMAIN accounts :
                            accounts[a].username = username
             hash == accounts[user_id].password_hash
             salt == accounts[user_id].password_salt
             check_hash == hash_password(password, salt)
         IN  IF hash = check_hash
             THEN IF unique_session_violated(session)
                  THEN /\ last' = Returned("login", "Other", None)
                       /\ UNCHANGED <<accounts, sessions, changed>>
                  ELSE /\ sessions' = Insert(sessions, session, user_id)
                       /\ last' = Returned("login", "Ok", <<session>>)
                       /\ UNCHANGED <<accounts, changed>>
             ELSE /\ last' = Returned("login", "UserNotFound", None)
                  /\ UNCHANGED <<accounts, sessions, changed>>

\* A faulty login, whose INSERT replaces the row of a token that is stored
\* (ON CONFLICT ... DO UPDATE).
login_session_upsert(username, password, session) ==
    IF ~username_taken(username)
    THEN /\ last' = Returned("login", "UserNotFound", None)
         /\ UNCHANGED <<accounts, sessions, changed>>
    ELSE LET user_id == CHOOSE a \in DOMAIN accounts :
                            accounts[a].username = username
             hash == accounts[user_id].password_hash
             salt == accounts[user_id].password_salt
             check_hash == hash_password(password, salt)
         IN  IF hash = check_hash
             THEN /\ sessions' = Insert(sessions, session, user_id)
                  /\ last' = Returned("login", "Ok", <<session>>)
                  /\ UNCHANGED <<accounts, changed>>
             ELSE /\ last' = Returned("login", "IncorrectPassword", None)
                  /\ UNCHANGED <<accounts, sessions, changed>>

\* A faulty login, which inserts the session for the first account row
\* instead of the row the username selected.
login_session_first_row(username, password, session) ==
    IF ~username_taken(username)
    THEN /\ last' = Returned("login", "UserNotFound", None)
         /\ UNCHANGED <<accounts, sessions, changed>>
    ELSE LET user_id == CHOOSE a \in DOMAIN accounts :
                            accounts[a].username = username
             hash == accounts[user_id].password_hash
             salt == accounts[user_id].password_salt
             check_hash == hash_password(password, salt)
         IN  IF hash = check_hash
             THEN IF unique_session_violated(session)
                  THEN /\ last' = Returned("login", "Other", None)
                       /\ UNCHANGED <<accounts, sessions, changed>>
                  ELSE /\ sessions' =
                            Insert(sessions, session,
                                   CHOOSE a \in DOMAIN accounts :
                                       \A b \in DOMAIN accounts : a <= b)
                       /\ last' = Returned("login", "Ok", <<session>>)
                       /\ UNCHANGED <<accounts, changed>>
             ELSE /\ last' = Returned("login", "IncorrectPassword", None)
                  /\ UNCHANGED <<accounts, sessions, changed>>

\* A faulty login, which keeps one session per account: it deletes the
\* account's earlier sessions.
login_session_single(username, password, session) ==
    IF ~username_taken(username)
    THEN /\ last' = Returned("login", "UserNotFound", None)
         /\ UNCHANGED <<accounts, sessions, changed>>
    ELSE LET user_id == CHOOSE a \in DOMAIN accounts :
                            accounts[a].username = username
             hash == accounts[user_id].password_hash
             salt == accounts[user_id].password_salt
             check_hash == hash_password(password, salt)
         IN  IF hash = check_hash
             THEN IF unique_session_violated(session)
                  THEN /\ last' = Returned("login", "Other", None)
                       /\ UNCHANGED <<accounts, sessions, changed>>
                  ELSE /\ sessions' =
                            Insert(Delete(sessions,
                                          {t \in DOMAIN sessions :
                                              sessions[t] = user_id}),
                                   session, user_id)
                       /\ last' = Returned("login", "Ok", <<session>>)
                       /\ UNCHANGED <<accounts, changed>>
             ELSE /\ last' = Returned("login", "IncorrectPassword", None)
                  /\ UNCHANGED <<accounts, sessions, changed>>

\* The body of login, for the token `session` that random_session draws.
login_session(username, password, session) ==
    IF ~username_taken(username)
    THEN /\ last' = Returned("login", "UserNotFound", None)
         /\ UNCHANGED <<accounts, sessions, changed>>
    ELSE LET user_id == CHOOSE a \in DOMAIN accounts :
                            accounts[a].username = username
             hash == accounts[user_id].password_hash
             salt == accounts[user_id].password_salt
             check_hash == hash_password(password, salt)
         IN  IF hash = check_hash
             THEN IF unique_session_violated(session)
                  THEN /\ last' = Returned("login", "Other", None)
                       /\ UNCHANGED <<accounts, sessions, changed>>
                  ELSE /\ sessions' = Insert(sessions, session, user_id)
                       /\ last' = Returned("login", "Ok", <<session>>)
                       /\ UNCHANGED <<accounts, changed>>
             ELSE /\ last' = Returned("login", "IncorrectPassword", None)
                  /\ UNCHANGED <<accounts, sessions, changed>>

\* SqlAccountManager::login
login(username, password) ==
    \E session \in random_session : login_session(username, password, session)

\* A faulty retrieve_account, which refuses a ResetRequired account for
\* every purpose.
retrieve_account_result_ignores_purpose(session_token, purpose) ==
    IF ~(/\ session_token \in DOMAIN sessions
         /\ sessions[session_token] \in DOMAIN accounts)
    THEN Returned("retrieve_account", "InvalidToken", None)
    ELSE IF accounts[sessions[session_token]].password_reset_needed
         THEN Returned("retrieve_account", "InvalidPurpose", None)
         ELSE Returned("retrieve_account", "Ok", <<sessions[session_token]>>)

\* A faulty retrieve_account, which takes a missing row for a row with
\* password_reset_needed set.
retrieve_account_result_purpose_first(session_token, purpose) ==
    IF ~(/\ session_token \in DOMAIN sessions
         /\ sessions[session_token] \in DOMAIN accounts)
    THEN IF purpose = "Other"
         THEN Returned("retrieve_account", "InvalidPurpose", None)
         ELSE Returned("retrieve_account", "InvalidToken", None)
    ELSE IF /\ purpose = "Other"
            /\ accounts[sessions[session_token]].password_reset_needed
         THEN Returned("retrieve_account", "InvalidPurpose", None)
         ELSE Returned("retrieve_account", "Ok", <<sessions[session_token]>>)

\* What retrieve_account returns for a token and a purpose.
retrieve_account_result(session_token, purpose) ==
    IF ~(/\ session_token \in DOMAIN sessions
         /\ sessions[session_token] \in DOMAIN accounts)
    THEN Returned("retrieve_account", "InvalidToken", None)
    ELSE LET account_id == sessions[session_token]
             password_reset_needed == accounts[account_id].password_reset_needed
         IN  IF purpose = "Other" /\ password_reset_needed
             THEN Returned("retrieve_account", "InvalidPurpose", None)
             ELSE Returned("retrieve_account", "Ok", <<account_id>>)

\* SqlAccountManager::retrieve_account
retrieve_account(session_token, purpose) ==
    /\ last' = retrieve_account_result(session_token, purpose)
    /\ UNCHANGED <<accounts, sessions, changed>>

\* ------------------------------------------- handlers, statement by statement
\* create_account, change_password and login send two statements to the
\* store.  Between the two the call is in flight: other calls run.

\* The slot of the next call in flight.
free_calls ==
    LET free == Calls \ DOMAIN pending
    IN  {call \in free : \A other \in free : call <= other}

\* create_account up to its SELECT of the owner's role and the can_own test.
create_account_select(call, owner_id, account_role, username) ==
    /\ call \in free_calls
    /\ IF owner_id \notin DOMAIN accounts
       THEN /\ last' = Returned("create_account", "OwnerNotFound", None)
            /\ UNCHANGED pending
       ELSE IF can_own(accounts[owner_id].role, account_role)
            THEN /\ pending' = Insert(pending, call,
                                      [op |-> "create_account",
                                       owner_id |-> owner_id,
                                       account_role |-> account_role,
                                       username |-> username])
                 /\ UNCHANGED last
            ELSE /\ last' = Returned("create_account", "InvalidOwnerRole", None)
                 /\ UNCHANGED pending
    /\ UNCHANGED <<accounts, sessions, changed, phones, ambulances,
                   archive_etas, fixes>>

\* create_account from there: unchecked_create_account and its INSERT.
create_account_insert(call) ==
    /\ call \in DOMAIN pending
    /\ pending[call].op = "create_account"
    /\ unchecked_create_account("create_account", pending[call].username,
                                pending[call].account_role,
                                Some(pending[call].owner_id))
    /\ pending' = Delete(pending, {call})
    /\ UNCHANGED <<phones, ambulances, archive_etas, fixes>>

\* change_password up to its SELECT of the stored hash and salt and the
\* comparison with the hash of current_password.
change_password_select(call, account_id, current_password, new_password) ==
    /\ call \in free_calls
    /\ IF account_id \notin DOMAIN accounts
       THEN /\ last' = Returned("change_password", "UserNotFound", None)
            /\ UNCHANGED pending
       ELSE LET current_hash == accounts[account_id].password_hash
                current_salt == accounts[account_id].password_salt
                check_hash == hash_password(current_password, current_salt)
            IN  IF check_hash = current_hash
                THEN /\ pending' = Insert(pending, call,
                                          [op |-> "change_password",
                                           account_id |-> account_id,
                                           current_password |->
                                               current_password,
                                           new_password |-> new_password])
                     /\ UNCHANGED last
                ELSE /\ last' = Returned("change_password",
                                         "IncorrectPassword", None)
                     /\ UNCHANGED pending
    /\ UNCHANGED <<accounts, sessions, changed, phones, ambulances,
                   archive_etas, fixes>>

\* change_password from there: the UPDATE ... WHERE user_id=$1, which is
\* executed without a look at the number of rows it wrote.
change_password_execute(call) ==
    /\ call \in DOMAIN pending
    /\ pending[call].op = "change_password"
    /\ \E new_salt \in random_salt :
        LET account_id == pending[call].account_id
        IN  IF account_id \in DOMAIN accounts
            THEN /\ accounts' = change_password_update(
                                    account_id, pending[call].new_password,
                                    new_salt)
                 /\ changed' = changed \cup {account_id}
            ELSE UNCHANGED <<accounts, changed>>
    /\ last' = Returned("change_password", "Ok", None)
    /\ pending' = Delete(pending, {call})
    /\ UNCHANGED <<sessions, phones, ambulances, archive_etas, fixes>>

\* A faulty login, which takes every password for the stored one.
login_select_no_compare(call, username, password) ==
    /\ call \in free_calls
    /\ IF ~username_taken(username)
       THEN /\ last' = Returned("login", "UserNotFound", None)
            /\ UNCHANGED pending
       ELSE LET user_id == CHOOSE a \in DOMAIN accounts :
                               accounts[a].username = username
                hash == accounts[user_id].password_hash
                salt == accounts[user_id].password_salt
            IN  /\ pending' = Insert(pending, call,
                                     [op |-> "login",
                                      user_id |-> user_id])
                /\ UNCHANGED last
    /\ UNCHANGED <<accounts, sessions, changed, phones, ambulances,
                   archive_etas, fixes>>

\* login up to its SELECT by username and the comparison with the hash of
\* password.
login_select(call, username, password) ==
    /\ call \in free_calls
    /\ IF ~username_taken(username)
       THEN /\ last' = Returned("login", "UserNotFound", None)
            /\ UNCHANGED pending
       ELSE LET user_id == CHOOSE a \in DOMAIN accounts :
                               accounts[a].username = username
                hash == accounts[user_id].password_hash
                salt == accounts[user_id].password_salt
                check_hash == hash_password(password, salt)
            IN  IF hash = check_hash
                THEN /\ pending' = Insert(pending, call,
                                          [op |-> "login",
                                           user_id |-> user_id])
                     /\ UNCHANGED last
                ELSE /\ last' = Returned("login", "IncorrectPassword", None)
                     /\ UNCHANGED pending
    /\ UNCHANGED <<accounts, sessions, changed, phones, ambulances,
                   archive_etas, fixes>>

\* login from there: random_session and the INSERT into sessions.
login_insert(call) ==
    /\ call \in DOMAIN pending
    /\ pending[call].op = "login"
    /\ \E session \in random_session :
        IF \/ unique_session_violated(session)
           \/ session_reference_violated(pending[call].user_id)
        THEN /\ last' = Returned("login", "Other", None)
             /\ UNCHANGED sessions
        ELSE /\ sessions' = Insert(sessions, session, pending[call].user_id)
             /\ last' = Returned("login", "Ok", <<session>>)
    /\ pending' = Delete(pending, {call})
    /\ UNCHANGED <<accounts, changed, phones, ambulances, archive_etas, fixes>>

\* ------------------------------------------------------- SQLAmbulanceTracker
\* wkb::Encode<Geometry> of a point, and wkb::Decode<Geometry> of a column:
\* the geometry of a NULL column is None.
wkb_Encode(location) == <<"Point", location[1], location[2]>>

wkb_Decode(column) ==
    [geometry |-> IF column = None THEN None
                  ELSE Some(<<column[2], column[3]>>)]

\* ambulances.ambulance_id is generated by the store.
generated_ambulance_ids ==
    LET unused == AmbulanceIds \ DOMAIN ambulances
    IN  {id \in unused : \A other \in unused : id <= other}

\* The Ambulance built from a row (ambulance_id, ambulance_name, location,
\* last_update); the name column is filled by every INSERT.
Ambulance(id, row) ==
    [id |-> id,
     name |-> row.ambulance_name,
     location |-> wkb_Decode(row.location).geometry[1],
     last_updated |-> row.last_update]

\* SQLAmbulanceTracker::add_ambulance
add_ambulance(name, location, fetched) ==
    /\ \E id \in generated_ambulance_ids :
        /\ ambulances' = Insert(ambulances, id,
                                [ambulance_name |-> name,
                                 location |-> wkb_Encode(location),
                                 last_update |-> fetched])
        /\ last' = Returned("add_ambulance", "Ok",
                            <<[id |-> id, name |-> name,
                               location |-> location,
                               last_updated |-> fetched]>>)
        /\ fixes' = Insert(fixes, id, {[fetched |-> fetched,
                                        location |-> location]})
    /\ UNCHANGED <<accounts, sessions, changed, phones, pending, archive_etas>>

\* A faulty update_ambulance, whose UPDATE has no guard on the instant
\* (WHERE ambulance_id=$1): the last call wins.
update_ambulance_unguarded(id, location, fetched) ==
    /\ ambulances' =
          [a \in DOMAIN ambulances |->
              IF a = id
              THEN [ambulances[a] EXCEPT !.location = wkb_Encode(location),
                                         !.last_update = fetched]
              ELSE ambulances[a]]
    /\ LET exists == IF id \in DOMAIN ambulances THEN 1 ELSE 0
       IN  IF exists = 1
           THEN last' = Returned("update_ambulance", "Ok", None)
           ELSE last' = Returned("update_ambulance", "AmbulanceNotFound", None)
    /\ fixes' = [a \in DOMAIN fixes |->
                    IF a = id
                    THEN fixes[a] \cup {[fetched |-> fetched,
                                         location |-> location]}
                    ELSE fixes[a]]
    /\ UNCHANGED <<accounts, sessions, changed, phones, pending, archive_etas>>

\* A faulty update_ambulance, whose UPDATE also takes a fix of the instant
\* of the stored one (last_update<=$3).
update_ambulance_not_before(id, location, fetched) ==
    /\ ambulances' =
          [a \in DOMAIN ambulances |->
              IF a = id /\ ambulances[a].last_update <= fetched
              THEN [ambulances[a] EXCEPT !.location = wkb_Encode(location),
                                         !.last_update = fetched]
              ELSE ambulances[a]]
    /\ LET exists == IF id \in DOMAIN ambulances THEN 1 ELSE 0
       IN  IF exists = 1
           THEN last' = Returned("update_ambulance", "Ok", None)
           ELSE last' = Returned("update_ambulance", "AmbulanceNotFound", None)
    /\ fixes' = [a \in DOMAIN fixes |->
                    IF a = id
                    THEN fixes[a] \cup {[fetched |-> fetched,
                                         location |-> location]}
                    ELSE fixes[a]]
    /\ UNCHANGED <<accounts, sessions, changed, phones, pending, archive_etas>>

\* SQLAmbulanceTracker::update_ambulance: the UPDATE of the WITH clause
\* writes the rows WHERE ambulance_id=$1 AND last_update<$3, and the SELECT
\* returns 1 when a row of that id is stored and 0 otherwise.
update_ambulance(id, location, fetched) ==
    /\ ambulances' =
          [a \in DOMAIN ambulances |->
              IF a = id /\ ambulances[a].last_update < fetched
              THEN [ambulances[a] EXCEPT !.location = wkb_Encode(location),
                                         !.last_update = fetched]
              ELSE ambulances[a]]
    /\ LET exists == IF id \in DOMAIN ambulances THEN 1 ELSE 0
       IN  IF exists = 1
           THEN last' = Returned("update_ambulance", "Ok", None)
           ELSE last' = Returned("update_ambulance", "AmbulanceNotFound", None)
    /\ fixes' = [a \in DOMAIN fixes |->
                    IF a = id
                    THEN fixes[a] \cup {[fetched |-> fetched,
                                         location |-> location]}
                    ELSE fixes[a]]
    /\ UNCHANGED <<accounts, sessions, changed, phones, pending, archive_etas>>

\* SQLAmbulanceTracker::get_recently_updated, called at the instant now: the
\* ambulances WHERE last_update > now - last_updated, in no stated order.
get_recently_updated(now, last_updated) ==
    /\ last' = Returned("get_recently_updated", "Ok",
                        <<{Ambulance(a, ambulances[a]) :
                             a \in {b \in DOMAIN ambulances :
                                      ambulances[b].last_update
                                          > now - last_updated}}>>)
    /\ UNCHANGED <<accounts, sessions, changed, phones, ambulances, pending,
                   archive_etas, fixes>>

\* SQLAmbulanceTracker::get_ambulance
get_ambulance(id) ==
    /\ last' = Returned("get_ambulance", "Ok",
                        IF id \in DOMAIN ambulances
                        THEN Some(Ambulance(id, ambulances[id]))
                        ELSE None)
    /\ UNCHANGED <<accounts, sessions, changed, phones, ambulances, pending,
                   archive_etas, fixes>>

\* -------------------------------------------------------- SQLSettingsManager
\* UserSettings::hospital_location as the implementation and its tests have
\* it: a point or none.
HospitalLocations == {None, Some(<<40, 74>>)}

UserSettings == [hospital_location : HospitalLocations,
                 default_eta_alert : Durations]

\* PgInterval::try_from(Duration): an error when the duration has a part
\* below the microsecond, else months 0, days 0 and the microseconds, kept
\* here as <<seconds, microseconds of the second>>.
PgInterval_try_from(duration) ==
    IF duration.nanos % 1000 # 0
    THEN [is_err |-> TRUE]
    ELSE [is_err |-> FALSE,
          interval |-> [months |-> 0, days |-> 0,
                        microseconds |-> <<duration.secs,
                                           duration.nanos \div 1000>>]]

SIX_HOURS_SECONDS == 6 * 60 * 60

\* The three assertions of convert_interval: the interval is of no days, no
\* months, and of 0 to SIX_HOURS_MICROSECONDS microseconds.
convert_interval_asserts(interval) ==
    /\ interval.days = 0
    /\ interval.months = 0
    /\ interval.microseconds[1] >= 0
    /\ \/ interval.microseconds[1] < SIX_HOURS_SECONDS
       \/ /\ interval.microseconds[1] = SIX_HOURS_SECONDS
          /\ interval.microseconds[2] = 0

\* convert_interval where its assertions hold: Duration::from_micros.
convert_interval(interval) ==
    [secs |-> interval.microseconds[1],
     nanos |-> interval.microseconds[2] * 1000]

\* phone_pretty
phone_pretty(phone) ==
    <<"(">> \o SubSeq(phone, 1, 3) \o <<")", " ">> \o SubSeq(phone, 4, 6)
        \o <<"-">> \o SubSeq(phone, 7, 10)

\* phone_numbers.phone_id is generated by the store.
generated_phone_ids ==
    LET unused == PhoneIds \ DOMAIN phones
    IN  {id \in unused : \A other \in unused : id <= other}

\* phone_numbers.user_id references accounts: an INSERT of a phone of an
\* account that is not stored fails with a foreign key violation.
phone_reference_violated(user_id) == user_id \notin DOMAIN accounts

\* SQLSettingsManager::get_settings; it panics where an assertion of
\* convert_interval fails.
get_settings(user_id) ==
    /\ IF user_id \in DOMAIN accounts
       THEN LET hospital_location == wkb_Decode(accounts[user_id].hospital)
                pref_eta == accounts[user_id].pref_eta
            IN  IF convert_interval_asserts(pref_eta)
                THEN last' = Returned("get_settings", "Ok",
                                <<[hospital_location |->
                                       hospital_location.geometry,
                                   default_eta_alert |->
                                       convert_interval(pref_eta)]>>)
                ELSE last' = Returned("get_settings", "panic", None)
       ELSE last' = Returned("get_settings", "UserNotFound", None)
    /\ UNCHANGED <<accounts, sessions, changed, phones, ambulances, pending,
                   archive_etas, fixes>>

\* A faulty set_settings, which writes the row anew (replacing it entirely)
\* and leaves the owner out.
set_settings_replaces_row(user_id, settings) ==
    /\ LET interval == PgInterval_try_from(settings.default_eta_alert)
       IN  IF interval.is_err
           THEN /\ last' = Returned("set_settings", "Other", None)
                /\ UNCHANGED accounts
           ELSE IF user_id \in DOMAIN accounts
                THEN /\ accounts' =
                          [accounts EXCEPT
                              ![user_id].owner_id = None,
                              ![user_id].hospital =
                                  IF settings.hospital_location = None
                                  THEN None
                                  ELSE wkb_Encode(settings.hospital_location[1]),
                              ![user_id].pref_eta = interval.interval]
                     /\ last' = Returned("set_settings", "Ok", None)
                ELSE /\ last' = Returned("set_settings", "UserNotFound", None)
                     /\ UNCHANGED accounts
    /\ UNCHANGED <<sessions, changed, phones, ambulances, pending,
                   archive_etas, fixes>>

\* SQLSettingsManager::set_settings
set_settings(user_id, settings) ==
    /\ LET interval == PgInterval_try_from(settings.default_eta_alert)
       IN  IF interval.is_err
           THEN /\ last' = Returned("set_settings", "Other", None)
                /\ UNCHANGED accounts
           ELSE IF user_id \in DOMAIN accounts
                THEN /\ accounts' =
                          [accounts EXCEPT
                              ![user_id].hospital =
                                  IF settings.hospital_location = None
                                  THEN None
                                  ELSE wkb_Encode(settings.hospital_location[1]),
                              ![user_id].pref_eta = interval.interval]
                     /\ last' = Returned("set_settings", "Ok", None)
                ELSE /\ last' = Returned("set_settings", "UserNotFound", None)
                     /\ UNCHANGED accounts
    /\ UNCHANGED <<sessions, changed, phones, ambulances, pending,
                   archive_etas, fixes>>

\* SQLSettingsManager::get_phones: the entries of the user, in no stated
\* order.
get_phones(user_id) ==
    /\ IF user_id \notin DOMAIN accounts
       THEN last' = Returned("get_phones", "UserNotFound", None)
       ELSE last' = Returned("get_phones", "Ok",
                       <<{[phone_id |-> p,
                           label |-> IF phones[p].label = None
                                     THEN phone_pretty(phones[p].phone)
                                     ELSE phones[p].label[1],
                           number |-> phones[p].phone] :
                            p \in {q \in DOMAIN phones :
                                      phones[q].user_id = user_id}}>>)
    /\ UNCHANGED <<accounts, sessions, changed, phones, ambulances, pending,
                   archive_etas, fixes>>

\* A faulty new_phone, which keeps one entry per number and label of a user
\* (ON CONFLICT DO NOTHING, returning the stored entry).
new_phone_no_duplicates(user_id, phone, label) ==
    /\ IF phone_reference_violated(user_id)
       THEN /\ last' = Returned("new_phone", "UserNotFound", None)
            /\ UNCHANGED phones
       ELSE LET same == {p \in DOMAIN phones :
                            /\ phones[p].user_id = user_id
                            /\ phones[p].phone = phone
                            /\ phones[p].label = Some(label)}
            IN  \E phone_id \in IF same # {} THEN same
                                ELSE generated_phone_ids :
                    /\ phones' = Insert(phones, phone_id,
                                        [user_id |-> user_id,
                                         phone |-> phone,
                                         label |-> Some(label)])
                    /\ last' = Returned("new_phone", "Ok",
                                        <<[phone_id |-> phone_id,
                                           label |-> label,
                                           number |-> phone]>>)
    /\ UNCHANGED <<accounts, sessions, changed, ambulances, pending,
                   archive_etas, fixes>>

\* SQLSettingsManager::new_phone
new_phone(user_id, phone, label) ==
    /\ IF phone_reference_violated(user_id)
       THEN /\ last' = Returned("new_phone", "UserNotFound", None)
            /\ UNCHANGED phones
       ELSE \E phone_id \in generated_phone_ids :
                /\ phones' = Insert(phones, phone_id,
                                    [user_id |-> user_id,
                                     phone |-> phone,
                                     label |-> Some(label)])
                /\ last' = Returned("new_phone", "Ok",
                                    <<[phone_id |-> phone_id,
                                       label |-> label,
                                       number |-> phone]>>)
    /\ UNCHANGED <<accounts, sessions, changed, ambulances, pending,
                   archive_etas, fixes>>

\* A faulty delete_phone, whose DELETE does not look at the user
\* (WHERE phone_id=$2).
delete_phone_of_any_user(user_id, phone_id) ==
    /\ IF phone_id \in DOMAIN phones
       THEN /\ phones' = Delete(phones, {phone_id})
            /\ last' = Returned("delete_phone", "Ok", None)
       ELSE /\ last' = Returned("delete_phone", "PhoneNotFound", None)
            /\ UNCHANGED phones
    /\ UNCHANGED <<accounts, sessions, changed, ambulances, pending,
                   archive_etas, fixes>>

\* SQLSettingsManager::delete_phone
delete_phone(user_id, phone_id) ==
    /\ IF phone_id \in DOMAIN phones /\ phones[phone_id].user_id = user_id
       THEN /\ phones' = Delete(phones, {phone_id})
            /\ last' = Returned("delete_phone", "Ok", None)
       ELSE /\ last' = Returned("delete_phone", "PhoneNotFound", None)
            /\ UNCHANGED phones
    /\ UNCHANGED <<accounts, sessions, changed, ambulances, pending,
                   archive_etas, fixes>>

\* ---------------------------------------------------------------- ArchiveEta
\* What the wrapped finder (self.1, any EtaFinder) can return for a call: an
\* error, or the ETA it calculated.
EtaFinder_calculate_eta(ambulance_id, from, to) ==
    {[is_err |-> TRUE, error |-> "finder"]}
        \cup {[is_err |-> FALSE, eta |-> eta] : eta \in Durations}

\* The INSERT INTO archive_etas of calculate_eta at the instant now: the eta
\* is bound as an interval, and a Duration with a part below the microsecond
\* has none, which fails the statement.
archive_insert(ambulance_id, from, to, eta, now) ==
    LET interval == PgInterval_try_from(eta)
    IN  IF interval.is_err
        THEN [is_err |-> TRUE, error |-> "insert", rows |-> archive_etas]
        ELSE [is_err |-> FALSE,
              rows |-> Append(archive_etas,
                              [ambulance_id |-> ambulance_id,
                               current_location |-> wkb_Encode(from),
                               destination |-> wkb_Encode(to),
                               eta |-> interval.interval,
                               calculated_at |-> now])]

\* A faulty calculate_eta, which returns the ETA it calculated when the
\* INSERT has failed.
calculate_eta_ignores_insert(ambulance_id, from, to) ==
    /\ Len(archive_etas) < MaxArchive
    /\ \E inner \in EtaFinder_calculate_eta(ambulance_id, from, to),
          now \in Times :
        IF inner.is_err
        THEN /\ last' = Returned("calculate_eta", "Err", <<inner.error>>)
             /\ UNCHANGED archive_etas
        ELSE LET insert == archive_insert(ambulance_id, from, to,
                                          inner.eta, now)
             IN  /\ archive_etas' = insert.rows
                 /\ last' = Returned("calculate_eta", "Ok", <<inner.eta>>)
    /\ UNCHANGED <<accounts, sessions, changed, phones, ambulances, pending,
                   fixes>>

\* ArchiveEta::calculate_eta
calculate_eta(ambulance_id, from, to) ==
    /\ Len(archive_etas) < MaxArchive
    /\ \E inner \in EtaFinder_calculate_eta(ambulance_id, from, to),
          now \in Times :
        IF inner.is_err
        THEN /\ last' = Returned("calculate_eta", "Err", <<inner.error>>)
             /\ UNCHANGED archive_etas
        ELSE LET insert == archive_insert(ambulance_id, from, to,
                                          inner.eta, now)
             IN  IF insert.is_err
                 THEN /\ last' = Returned("calculate_eta", "Err",
                                          <<insert.error>>)
                      /\ UNCHANGED archive_etas
                 ELSE /\ archive_etas' = insert.rows
                      /\ last' = Returned("calculate_eta", "Ok", <<inner.eta>>)
    /\ UNCHANGED <<accounts, sessions, changed, phones, ambulances, pending,
                   fixes>>

\* ------------------------------------------------- random_password, by steps
\* A call of random_password(length): the call in flight holds the locals
\* `rand` and `password` and, as history, the draws it has made with the
\* position each was made for.
random_password_call(length) ==
    /\ pending = EmptyTable
    /\ pending' = Insert(pending, 1,
                         [op |-> "random_password",
                          length |-> length,
                          rand |-> 0,
                          password |-> << >>,
                          draws |-> << >>])
    /\ UNCHANGED <<accounts, sessions, changed, last, phones, ambulances,
                   archive_etas, fixes>>

\* One iteration of the loop `for _ in 0..length`.
random_password_iteration ==
    \E call \in DOMAIN pending :
        /\ pending[call].op = "random_password"
        /\ Len(pending[call].password) < pending[call].length
        /\ \E draw \in try_next_u64 :
            LET local == pending[call]
                position == Len(local.password) + 1
                rand == IF local.rand < Len(ALLOWED_CHARS)
                        THEN local.rand + draw
                        ELSE local.rand
                draws == IF local.rand < Len(ALLOWED_CHARS)
                         THEN Append(local.draws,
                                     [position |-> position, draw |-> draw])
                         ELSE local.draws
            IN  pending' =
                    [pending EXCEPT
                        ![call].rand = rand,
                        ![call].draws = draws,
                        ![call].password =
                            Append(local.password,
                                   ALLOWED_CHARS[(rand % Len(ALLOWED_CHARS)) + 1])]
        /\ UNCHANGED <<accounts, sessions, changed, last, phones, ambulances,
                       archive_etas, fixes>>

\* The end of the loop: Ok(password).
random_password_return ==
    \E call \in DOMAIN pending :
        /\ pending[call].op = "random_password"
        /\ Len(pending[call].password) = pending[call].length
        /\ last' = Returned("random_password", "Ok",
                            <<pending[call].password>>)
        /\ pending' = Delete(pending, {call})
        /\ UNCHANGED <<accounts, sessions, changed, phones, ambulances,
                       archive_etas, fixes>>

\* ------------------------------------------------------------ specification
Next ==
    \/ \E username \in Usernames : create_site_admin(username)
        /\ outside_accounts
    \/ \E owner_id \in AccountIds, account_role \in AccountRole,
          username \in Usernames :
            create_account(owner_id, account_role, username)
                /\ outside_accounts
    \/ \E owner_id \in AccountIds, account_id \in AccountIds :
            reset_password(owner_id, account_id) /\ outside_accounts
    \/ \E owner_id \in AccountIds, account_id \in AccountIds :
            delete_account(owner_id, account_id) /\ outside_accounts
    \/ \E account_id \in AccountIds, current_password \in Passwords,
          new_password \in Passwords :
            change_password(account_id, current_password, new_password)
                /\ outside_accounts
    \/ \E token \in Tokens : destroy_session(token) /\ outside_accounts
    \/ \E username \in Usernames, password \in Passwords :
            login(username, password) /\ outside_accounts
    \/ \E session_token \in Tokens, purpose \in SessionRetrievalPurpose :
            retrieve_account(session_token, purpose) /\ outside_accounts

Spec == Init /\ [][Next]_vars

\* The same handlers in a deployment of two usernames, where random_session
\* draws from SessionTokens: an account can hold several sessions at once.
NextSessions ==
    \/ \E username \in SessionUsernames : create_site_admin(username)
        /\ outside_accounts
    \/ \E owner_id \in AccountIds, account_role \in AccountRole,
          username \in SessionUsernames :
            create_account(owner_id, account_role, username)
                /\ outside_accounts
    \/ \E owner_id \in AccountIds, account_id \in AccountIds :
            reset_password(owner_id, account_id) /\ outside_accounts
    \/ \E owner_id \in AccountIds, account_id \in AccountIds :
            delete_account(owner_id, account_id) /\ outside_accounts
    \/ \E account_id \in AccountIds, current_password \in Passwords,
          new_password \in Passwords :
            change_password(account_id, current_password, new_password)
                /\ outside_accounts
    \/ \E token \in SessionTokens : destroy_session(token) /\ outside_accounts
    \/ \E username \in SessionUsernames, password \in Passwords,
          session \in SessionTokens :
            login_session(username, password, session) /\ outside_accounts
    \/ \E session_token \in SessionTokens, purpose \in SessionRetrievalPurpose :
            retrieve_account(session_token, purpose) /\ outside_accounts

SpecSessions == Init /\ [][NextSessions]_vars

\* The settings set_settings is called with in SpecAccountFields.
AccountFieldsSettings ==
    {settings \in UserSettings : settings.default_eta_alert.secs = 7200}

\* The account handlers together with set_settings, in a deployment of two
\* usernames.
NextAccountFields ==
    \/ \E username \in SessionUsernames : create_site_admin(username)
        /\ outside_accounts
    \/ \E owner_id \in AccountIds, account_role \in AccountRole,
          username \in SessionUsernames :
            create_account(owner_id, account_role, username)
                /\ outside_accounts
    \/ \E owner_id \in AccountIds, account_id \in AccountIds :
            reset_password(owner_id, account_id) /\ outside_accounts
    \/ \E owner_id \in AccountIds, account_id \in AccountIds :
            delete_account(owner_id, account_id) /\ outside_accounts
    \/ \E account_id \in AccountIds, current_password \in Passwords,
          new_password \in Passwords :
            change_password(account_id, current_password, new_password)
                /\ outside_accounts
    \/ \E token \in Tokens : destroy_session(token) /\ outside_accounts
    \/ \E username \in SessionUsernames, password \in Passwords :
            login(username, password) /\ outside_accounts
    \/ \E session_token \in Tokens, purpose \in SessionRetrievalPurpose :
            retrieve_account(session_token, purpose) /\ outside_accounts
    \/ \E user_id \in AccountIds, settings \in AccountFieldsSettings :
            set_settings(user_id, settings)

SpecAccountFields == Init /\ [][NextAccountFields]_vars

\* The ambulance tracker on its own table.
NextAmbulances ==
    \/ \E name \in AmbulanceNames, location \in Points, fetched \in Times :
            add_ambulance(name, location, fetched)
    \/ \E id \in AmbulanceIds, location \in Points, fetched \in Times :
            update_ambulance(id, location, fetched)
    \/ \E now \in Times, last_updated \in Times :
            get_recently_updated(now, last_updated)
    \/ \E id \in AmbulanceIds : get_ambulance(id)

SpecAmbulances == Init /\ [][NextAmbulances]_vars

\* The settings manager, on the accounts that create_site_admin,
\* create_account and delete_account store and remove.
NextSettings ==
    \/ \E username \in SessionUsernames :
            create_site_admin(username) /\ outside_accounts
    \/ \E owner_id \in AccountIds, username \in SessionUsernames :
            create_account(owner_id, "Admin", username) /\ outside_accounts
    \/ \E owner_id \in AccountIds, account_id \in AccountIds :
            delete_account(owner_id, account_id) /\ outside_accounts
    \/ \E user_id \in AccountIds : get_settings(user_id)
    \/ \E user_id \in AccountIds, settings \in UserSettings :
            set_settings(user_id, settings)
    \/ \E user_id \in AccountIds : get_phones(user_id)
    \/ \E user_id \in AccountIds, phone \in PhoneNumbers, label \in Labels :
            new_phone(user_id, phone, label)
    \/ \E user_id \in AccountIds, phone_id \in PhoneIds :
            delete_phone(user_id, phone_id)

SpecSettings == Init /\ [][NextSettings]_vars

\* ArchiveEta around any finder.
NextArchiveEta ==
    \E ambulance_id \in AmbulanceIds, from \in Points, to \in Points :
        calculate_eta(ambulance_id, from, to)

SpecArchiveEta == Init /\ [][NextArchiveEta]_vars

\* random_password on its own, for every length up to MaxLength and every
\* sequence of outputs of the generator.
NextRandomPassword ==
    \/ \E length \in 0..MaxLength : random_password_call(length)
    \/ random_password_iteration
    \/ random_password_return

SpecRandomPassword == Init /\ [][NextRandomPassword]_vars

\* Calls that overlap.  The handlers of one statement are steps as before;
\* a call of create_account, change_password or login is one step when no
\* other call runs between its two statements, and two steps, with the steps
\* of other calls between them, when it is in flight.
NextInterleaved ==
    \/ create_site_admin("root") /\ outside_accounts
    \/ \E call \in Calls, owner_id \in AccountIds,
          create \in InterleavedCreates :
            create_account_select(call, owner_id, create[1], create[2])
    \/ \E call \in Calls : create_account_insert(call)
    \/ \E owner_id \in AccountIds, create \in InterleavedCreates :
            create_account(owner_id, create[1], create[2])
            /\ outside_accounts
    \/ \E owner_id \in AccountIds, account_id \in AccountIds :
            reset_password(owner_id, account_id) /\ outside_accounts
    \/ \E owner_id \in AccountIds, account_id \in AccountIds :
            delete_account(owner_id, account_id) /\ outside_accounts
    \/ \E call \in Calls, account_id \in AccountIds,
          current_password \in Passwords, new_password \in Passwords :
            change_password_select(call, account_id, current_password,
                                   new_password)
    \/ \E call \in Calls : change_password_execute(call)
    \/ \E account_id \in AccountIds,
          current_password \in Passwords, new_password \in Passwords :
            change_password(account_id, current_password, new_password)
            /\ outside_accounts
    \/ \E token \in Tokens : destroy_session(token) /\ outside_accounts
    \/ \E call \in Calls, username \in Usernames, password \in Passwords :
            login_select(call, username, password)
    \/ \E call \in Calls : login_insert(call)
    \/ \E username \in Usernames, password \in Passwords :
            login(username, password) /\ outside_accounts
    \/ \E session_token \in Tokens, purpose \in SessionRetrievalPurpose :
            retrieve_account(session_token, purpose) /\ outside_accounts

SpecInterleaved == Init /\ [][NextInterleaved]_vars

\* ------------------------------------------------------------------- claims
\* The role pairs of section 4.1: who may own whom.
OwnershipTable == {<<"SiteAdmin", "Admin">>, <<"Admin", "User">>}

\* C1: for every pair of roles (o, s), can_own(o, s) is true iff (o, s) is
\* (SiteAdmin, Admin) or (Admin, User); no role owns itself and SiteAdmin
\* does not own User.  The owner role o is drawn, as create_account draws
\* it, from the stored accounts, which come to hold all three roles.
C1_can_own_table ==
    \A a \in DOMAIN accounts, s \in AccountRole :
        /\ can_own(accounts[a].role, s) <=>
               (<<accounts[a].role, s>> \in OwnershipTable)
        /\ accounts[a].role = s => ~can_own(accounts[a].role, s)
        /\ (accounts[a].role = "SiteAdmin" /\ s = "User") =>
               ~can_own(accounts[a].role, s)

\* C1 witness: accounts of all three roles are stored, so can_own is
\* compared on all nine pairs, and create_account has applied it with both
\* outcomes: a User owned by an Admin is stored and the last call was
\* refused for its role pair.
C1_witness ==
    /\ last.op = "create_account" /\ last.result = "InvalidOwnerRole"
    /\ {accounts[a].role : a \in DOMAIN accounts} = AccountRole
    /\ \E a \in DOMAIN accounts, u \in DOMAIN accounts :
          /\ accounts[a].role = "Admin" /\ accounts[u].role = "User"
          /\ accounts[u].owner_id = Some(a)

\* C2: every stored account that is not a SiteAdmin has an owner_id, the
\* owner is stored and its role can own the account's role; owner_id is
\* None only for SiteAdmin accounts.
C2_ownership_invariant ==
    \A a \in DOMAIN accounts :
        /\ accounts[a].role # "SiteAdmin" =>
              /\ accounts[a].owner_id # None
              /\ accounts[a].owner_id[1] \in DOMAIN accounts
              /\ <<accounts[accounts[a].owner_id[1]].role, accounts[a].role>>
                     \in OwnershipTable
              /\ can_own(accounts[accounts[a].owner_id[1]].role, accounts[a].role)
        /\ accounts[a].owner_id = None => accounts[a].role = "SiteAdmin"

\* C2 witness: after a delete_account, a SiteAdmin and an owned account
\* remain stored.
C2_witness ==
    /\ last.op = "delete_account" /\ last.result = "Ok"
    /\ \E a \in DOMAIN accounts : accounts[a].role = "Admin"
    /\ \E a \in DOMAIN accounts : accounts[a].role = "SiteAdmin"

\* C3: for a token in the session store, retrieve_account(token, purpose)
\* fails with InvalidPurpose iff purpose is Other and the session's account
\* has password_reset_needed; otherwise it returns the session's account id.
C3_retrieve_decision_table ==
    [][last'.op = "retrieve_account" =>
        \A t \in Tokens, p \in SessionRetrievalPurpose :
            (t \in DOMAIN sessions /\ retrieve_account(t, p)) =>
                IF /\ p = "Other"
                   /\ sessions[t] \in DOMAIN accounts
                   /\ accounts[sessions[t]].password_reset_needed
                THEN last'.result = "InvalidPurpose"
                ELSE /\ last'.result = "Ok"
                     /\ last'.value = <<sessions[t]>>]_vars

\* C3 witness: retrieve_account has refused a stored token for its purpose.
C3_witness ==
    /\ last.op = "retrieve_account" /\ last.result = "InvalidPurpose"
    /\ \E t \in DOMAIN sessions : accounts[sessions[t]].password_reset_needed

\* C4: retrieve_account on a token that is not in the session store fails
\* with InvalidToken for both purposes, whatever the reset flags are;
\* InvalidPurpose is never returned for such a token.
C4_unknown_token ==
    [][last'.op = "retrieve_account" =>
        \A t \in Tokens, p \in SessionRetrievalPurpose :
            (t \notin DOMAIN sessions /\ retrieve_account(t, p)) =>
                last'.result = "InvalidToken"]_vars

\* C4 witness: retrieve_account has refused a token while no session is
\* stored and an account with the reset flag set is.
C4_witness ==
    /\ last.op = "retrieve_account" /\ last.result = "InvalidToken"
    /\ DOMAIN sessions = {}
    /\ \E a \in DOMAIN accounts : accounts[a].password_reset_needed
    /\ \E a \in DOMAIN accounts : ~accounts[a].password_reset_needed

\* C5: an account created by create_account starts in ResetRequired: for
\* every session of it, retrieve_account(token, Other) fails with
\* InvalidPurpose in every state before change_password has succeeded on the
\* account, and returns the account in every state after.
C5_new_account_reset_required ==
    \A t \in DOMAIN sessions :
        (sessions[t] \in DOMAIN accounts /\ accounts[sessions[t]].owner_id # None) =>
            retrieve_account_result(t, "Other") =
                IF sessions[t] \in changed
                THEN Returned("retrieve_account", "Ok", <<sessions[t]>>)
                ELSE Returned("retrieve_account", "InvalidPurpose", None)

\* C5 witness: retrieve_account has returned an account made by
\* create_account whose change_password has succeeded, to a session of it.
C5_witness ==
    /\ last.op = "retrieve_account" /\ last.result = "Ok"
    /\ \E t \in DOMAIN sessions :
          /\ last.value = <<sessions[t]>>
          /\ sessions[t] \in changed
          /\ accounts[sessions[t]].owner_id # None

\* C6: after a successful reset_password(owner, target) every
\* retrieve_account(token, Other) for a session of target fails with
\* InvalidPurpose, also when target was in the Normal state before.
C6_reset_forces_change ==
    [][last'.op = "reset_password" =>
        \A o \in AccountIds, a \in AccountIds :
            (reset_password(o, a) /\ last'.result = "Ok") =>
                \A t \in DOMAIN sessions' :
                    sessions'[t] = a =>
                        retrieve_account_result(t, "Other")'.result = "InvalidPurpose"]_vars

C8_invalid_owner_role_no_mutation ==
    [][last'.op = "create_account" =>
        \A o \in AccountIds, r \in AccountRole, u \in Usernames :
            (/\ o \in DOMAIN accounts
             /\ ~can_own(accounts[o].role, r)
             /\ ~(/\ last'.result = "InvalidOwnerRole"
                  /\ accounts' = accounts
                  /\ sessions' = sessions)) =>
                ~create_account(o, r, u)]_vars

\* C8 witness: create_account was refused with InvalidOwnerRole while an
\* Admin and a User are stored.
C8_witness ==
    /\ last.op = "create_account" /\ last.result = "InvalidOwnerRole"
    /\ \E a \in DOMAIN accounts : accounts[a].role = "User"
    /\ \E a \in DOMAIN accounts : accounts[a].role = "Admin"

\* C9: create_account with a stored owner, a role the owner can own and a
\* username no account has succeeds: it returns an id no stored account had
\* and a non-empty temporary password that is the new account's credential;
\* the new row is stored with the caller as owner_id (the row the WHERE
\* clause of reset_password and delete_account by the caller selects), and
\* the rows stored before are as they were.
C9_valid_create_succeeds ==
    [][last'.op = "create_account" =>
        \A o \in AccountIds, r \in AccountRole, u \in Usernames :
            (/\ o \in DOMAIN accounts
             /\ can_own(accounts[o].role, r)
             /\ ~username_taken(u)
             /\ create_account(o, r, u)) =>
                /\ last'.result = "Ok"
                /\ Len(last'.value) = 2
                /\ last'.value[1] \notin DOMAIN accounts
                /\ last'.value[1] \in DOMAIN accounts'
                /\ Len(last'.value[2]) > 0
                /\ accounts'[last'.value[1]].owner_id = Some(o)
                /\ accounts'[last'.value[1]].role = r
                /\ accounts'[last'.value[1]].username = u
                /\ accounts'[last'.value[1]].password_hash =
                       hash_password(last'.value[2],
                                     accounts'[last'.value[1]].password_salt)
                /\ \A a \in DOMAIN accounts : accounts'[a] = accounts[a]]_vars

\* C9 witness: create_account has succeeded for an owner that now owns two
\* accounts.
C9_witness ==
    /\ last.op = "create_account" /\ last.result = "Ok"
    /\ \E a \in DOMAIN accounts, b \in DOMAIN accounts :
          /\ a # b
          /\ accounts[a].owner_id # None
          /\ accounts[a].owner_id = accounts[b].owner_id
          /\ last.value[1] \in {a, b}

\* C10: create_account with an owner_id no stored account has returns
\* OwnerNotFound for every desired role; InvalidOwnerRole is returned only
\* when the owner is stored; accounts and sessions are unchanged in both:
\* no step of a create_account call ends otherwise.
C10_owner_checked_first ==
    [][last'.op = "create_account" =>
        \A o \in AccountIds, r \in AccountRole, u \in Usernames :
            /\ (/\ o \notin DOMAIN accounts
                /\ ~(/\ last'.result = "OwnerNotFound"
                     /\ accounts' = accounts /\ sessions' = sessions)) =>
                  ~create_account(o, r, u)
            /\ (/\ last'.result = "InvalidOwnerRole"
                /\ ~(/\ o \in DOMAIN accounts
                     /\ accounts' = accounts /\ sessions' = sessions)) =>
                  ~create_account(o, r, u)]_vars

\* C10 witness: create_account has returned OwnerNotFound while some
\* account is stored.
C10_witness ==
    /\ last.op = "create_account" /\ last.result = "OwnerNotFound"
    /\ DOMAIN accounts # {}

\* C11: reset_password(o, a) and delete_account(o, a) on a stored account a
\* whose owner_id is not o (o = a, o the owner of a's owner, o any other
\* id) return UserNotFound and leave accounts (so a's credential) and
\* sessions as they were: no step of either call ends otherwise.
C11_not_owner_user_not_found ==
    [][last'.op \in {"reset_password", "delete_account"} =>
        \A o \in AccountIds, a \in AccountIds :
            (/\ a \in DOMAIN accounts
             /\ accounts[a].owner_id # Some(o)
             /\ ~(/\ last'.result = "UserNotFound"
                  /\ accounts' = accounts
                  /\ sessions' = sessions)) =>
                /\ ~reset_password(o, a)
                /\ ~delete_account(o, a)]_vars

\* C11 witness: delete_account was refused with UserNotFound while every
\* account id is stored, among them a User, its Admin owner and the
\* SiteAdmin that owns the Admin, so the refused target is a stored account
\* the caller does not own.
C11_witness ==
    /\ last.op = "delete_account" /\ last.result = "UserNotFound"
    /\ DOMAIN accounts = AccountIds
    /\ \E u \in DOMAIN accounts, a \in DOMAIN accounts, r \in DOMAIN accounts :
          /\ accounts[u].owner_id = Some(a)
          /\ accounts[a].owner_id = Some(r)
          /\ accounts[r].owner_id = None

\* What a caller may observe of reset_password and delete_account.
AccountOwnerManageError == {"UserNotFound", "Other"}

\* C12: anti-enumeration.  Take two stores that differ in whether the
\* target a exists: the store before and the store after a step that
\* creates a or deletes a.  For every caller o that is not the stored
\* owner of a where a exists, reset_password(o, a) and delete_account(o, a)
\* can end with the same results in the one store as in the other, and
\* that result is UserNotFound with no value.
C12_anti_enumeration ==
    [][\A a \in AccountIds :
        ((a \in DOMAIN accounts) # (a \in DOMAIN accounts')) =>
            \A o \in AccountIds :
                (/\ a \in DOMAIN accounts => accounts[a].owner_id # Some(o)
                 /\ a \in DOMAIN accounts' => accounts'[a].owner_id # Some(o)) =>
                    /\ \A r \in {"Ok"} \cup AccountOwnerManageError :
                          /\ (ENABLED (reset_password(o, a) /\ last'.result = r))
                               <=> (ENABLED (reset_password(o, a)
                                             /\ last'.result = r))'
                          /\ (ENABLED (delete_account(o, a) /\ last'.result = r))
                               <=> (ENABLED (delete_account(o, a)
                                             /\ last'.result = r))'
                    /\ ~ENABLED (reset_password(o, a)
                                 /\ last' # Returned("reset_password",
                                                     "UserNotFound", None))
                    /\ ~ENABLED (delete_account(o, a)
                                 /\ last' # Returned("delete_account",
                                                     "UserNotFound", None))]_vars

\* C12 witness: reset_password was refused with UserNotFound in a store
\* that holds a SiteAdmin and an Admin it owns and lacks one account id:
\* the refused callers meet stored targets they do not own as well as a
\* missing one.
C12_witness ==
    /\ last = Returned("reset_password", "UserNotFound", None)
    /\ AccountIds \ DOMAIN accounts # {}
    /\ \E r \in DOMAIN accounts, a \in DOMAIN accounts :
          /\ accounts[r].owner_id = None
          /\ accounts[a].owner_id = Some(r)

\* The results of login that tell the caller its password was not accepted.
LoginRefused == {"UserNotFound", "IncorrectPassword"}

\* C13: after reset_password(o, a) succeeds and returns the temporary
\* password p, login with a's username and a password that was accepted
\* before the reset can only end with IncorrectPassword, and login with p
\* is not refused and returns a token when random_session draws an unused
\* one.
C13_reset_replaces_password ==
    [][(last'.op = "reset_password" /\ last'.result = "Ok") =>
        \A o \in AccountIds, a \in AccountIds :
            (owned_row(o, a) /\ reset_password(o, a)) =>
                /\ \A old \in Passwords :
                      (ENABLED (/\ login(accounts[a].username, old)
                                /\ last'.result \notin LoginRefused)) =>
                          (~ENABLED (/\ login(accounts[a].username, old)
                                     /\ last'.result # "IncorrectPassword"))'
                /\ \A p \in Passwords :
                      last'.value = <<p>> =>
                          /\ (~ENABLED (/\ login(accounts[a].username, p)
                                        /\ last'.result \in LoginRefused))'
                          /\ (Tokens \ DOMAIN sessions # {} =>
                                ENABLED (/\ login(accounts[a].username, p)
                                         /\ last'.result = "Ok"))']_vars

\* C14: login(u, p) returns UserNotFound exactly when no stored account has
\* the username u, and IncorrectPassword exactly when an account has it and
\* p, hashed with the stored salt, is not the stored hash; a login that
\* ends with either leaves the sessions and the accounts as they were: no
\* step of a login call ends otherwise.
C14_login_errors_distinct ==
    [][last'.op = "login" =>
        \A u \in Usernames, p \in Passwords :
            ~(/\ last'.result = "UserNotFound" <=>
                    ~\E a \in DOMAIN accounts : accounts[a].username = u
              /\ last'.result = "IncorrectPassword" <=>
                    \E a \in DOMAIN accounts :
                        /\ accounts[a].username = u
                        /\ accounts[a].password_hash #
                               hash_password(p, accounts[a].password_salt)
              /\ last'.result \in LoginRefused =>
                    (sessions' = sessions /\ accounts' = accounts)) =>
                ~login(u, p)]_vars

\* C14 witness: login was refused with IncorrectPassword while an account
\* holds a session from an earlier login and a username is not in use, so
\* both refusals have their cases.
C14_witness ==
    /\ last = Returned("login", "IncorrectPassword", None)
    /\ DOMAIN sessions # {}
    /\ \E u \in Usernames : ~username_taken(u)

\* C15: destroy_session(t) returns Ok, and after it retrieve_account(t, _)
\* can only end with InvalidToken, for both purposes; when t is in no
\* session row (never issued, or destroyed before) the call changes neither
\* table, so a second destroy_session(t) is a no-op that returns Ok.  A
\* token retrieve_account refuses with InvalidToken stays refused in every
\* later state until a login returns that very token anew.
C15_destroy_session_idempotent ==
    [][/\ last'.op = "destroy_session" =>
            \A t \in Tokens :
                destroy_session(t) =>
                    /\ last' = Returned("destroy_session", "Ok", None)
                    /\ \A purpose \in SessionRetrievalPurpose :
                          (~ENABLED (/\ retrieve_account(t, purpose)
                                     /\ last'.result # "InvalidToken"))'
                    /\ t \notin DOMAIN sessions =>
                          (accounts' = accounts /\ sessions' = sessions)
       /\ \A t \in Tokens, purpose \in SessionRetrievalPurpose :
            (/\ ~ENABLED (/\ retrieve_account(t, purpose)
                          /\ last'.result # "InvalidToken")
             /\ (ENABLED (/\ retrieve_account(t, purpose)
                          /\ last'.result # "InvalidToken"))') =>
                last' = Returned("login", "Ok", <<t>>)]_vars

\* C15 witness: destroy_session has returned Ok, no session row is left,
\* every token is refused with InvalidToken, and an account is stored whose
\* next login can be handed a token again.
C15_witness ==
    /\ last = Returned("destroy_session", "Ok", None)
    /\ DOMAIN sessions = {}
    /\ \A t \in Tokens :
          retrieve_account_result(t, "ChangePassword").result = "InvalidToken"
    /\ \E u \in Usernames, p \in Passwords :
          ENABLED (login(u, p) /\ last'.result = "Ok")

\* C16: round trip.  After change_password(a, old, new) succeeds, login
\* with a's username and new is not refused, returns a token when
\* random_session draws an unused one, and every token it returns makes
\* retrieve_account(token, Other) return Ok(a); login with a's username
\* and old, when old differs from new, can only end with IncorrectPassword.
C16_change_password_round_trip ==
    [][(last'.op = "change_password" /\ last'.result = "Ok") =>
        \A a \in AccountIds, old \in Passwords, new \in Passwords :
            (a \in DOMAIN accounts /\ change_password(a, old, new)) =>
                /\ (~ENABLED (/\ login(accounts[a].username, new)
                              /\ last'.result \in LoginRefused))'
                /\ (Tokens \ DOMAIN sessions # {} =>
                        ENABLED (/\ login(accounts[a].username, new)
                                 /\ last'.result = "Ok"))'
                /\ (~ENABLED (/\ login(accounts[a].username, new)
                              /\ last'.result = "Ok"
                              /\ (retrieve_account_result(last.value[1], "Other")
                                    # Returned("retrieve_account", "Ok",
                                               <<a>>))'))'
                /\ old # new =>
                      (~ENABLED (/\ login(accounts[a].username, old)
                                 /\ last'.result # "IncorrectPassword"))']_vars

\* C16 witness: the round trip has run.  The last call was a login that
\* returned a token of an account that has changed its password, and
\* retrieve_account accepts the token for purpose Other with that account.
C16_witness ==
    /\ last.op = "login" /\ last.result = "Ok"
    /\ sessions[last.value[1]] \in changed
    /\ retrieve_account_result(last.value[1], "Other") =
           Returned("retrieve_account", "Ok", <<sessions[last.value[1]]>>)

\* C17: change_password(a, current, new) returns UserNotFound when no
\* account has the id a, and IncorrectPassword when a is stored and
\* current, hashed with the stored salt, is not the stored hash.  Both
\* leave accounts and sessions as they were: a's credential and
\* password_reset_needed are unchanged, and login with a's username is
\* accepted after the call for exactly the passwords it was accepted for
\* before.  No step of a change_password call ends otherwise.
C17_change_password_failures ==
    [][last'.op = "change_password" =>
        \A a \in AccountIds, current \in Passwords, new \in Passwords :
            /\ (/\ a \notin DOMAIN accounts
                /\ ~(/\ last'.result = "UserNotFound"
                     /\ accounts' = accounts
                     /\ sessions' = sessions)) =>
                  ~change_password(a, current, new)
            /\ (/\ a \in DOMAIN accounts
                /\ accounts[a].password_hash #
                       hash_password(current, accounts[a].password_salt)
                /\ ~(/\ last'.result = "IncorrectPassword"
                     /\ accounts' = accounts
                     /\ sessions' = sessions
                     /\ accounts'[a].password_reset_needed =
                            accounts[a].password_reset_needed
                     /\ \A p \in Passwords :
                          (ENABLED (/\ login(accounts[a].username, p)
                                    /\ last'.result \notin LoginRefused))
                            <=> (ENABLED (/\ login(accounts[a].username, p)
                                          /\ last'.result
                                                \notin LoginRefused))')) =>
                  ~change_password(a, current, new)]_vars

\* C17 witness: change_password was refused with IncorrectPassword while
\* every stored account is ResetRequired, so the refused account is one
\* that stays ResetRequired, and an account id is not stored.
C17_witness ==
    /\ last = Returned("change_password", "IncorrectPassword", None)
    /\ \A a \in DOMAIN accounts : accounts[a].password_reset_needed
    /\ AccountIds \ DOMAIN accounts # {}

\* C18: several sessions per account.  A successful login adds the token
\* it returns, which no session row had, and keeps every session row
\* there was, of the same and of every other account, each with its
\* account and with the result retrieve_account gives for it; the new
\* token is accepted by retrieve_account.  Every step that is neither
\* destroy_session nor delete_account keeps every session row, so the
\* tokens of n logins are all accepted while none is destroyed.
\* destroy_session(t) removes t and keeps every other session row.
C18_multiple_sessions ==
    [][/\ (last'.op = "login" /\ last'.result = "Ok") =>
            /\ last'.value[1] \notin DOMAIN sessions
            /\ (~ENABLED (/\ retrieve_account(last.value[1], "ChangePassword")
                          /\ last'.result # "Ok"))'
            /\ \A t \in DOMAIN sessions, purpose \in SessionRetrievalPurpose :
                  /\ t \in DOMAIN sessions'
                  /\ sessions'[t] = sessions[t]
                  /\ retrieve_account_result(t, purpose)' =
                         retrieve_account_result(t, purpose)
       /\ last'.op \notin {"destroy_session", "delete_account"} =>
            \A t \in DOMAIN sessions :
                t \in DOMAIN sessions' /\ sessions'[t] = sessions[t]
       /\ last'.op = "destroy_session" =>
            \A t \in SessionTokens :
                destroy_session(t) =>
                    /\ t \notin DOMAIN sessions'
                    /\ \A t2 \in DOMAIN sessions \ {t} :
                          /\ t2 \in DOMAIN sessions'
                          /\ sessions'[t2] = sessions[t2]
                          /\ \A purpose \in SessionRetrievalPurpose :
                                retrieve_account_result(t2, purpose)' =
                                    retrieve_account_result(t2, purpose)]_vars

\* C18 witness: the last call was a successful login of an account that
\* already held a session; both tokens are accepted by retrieve_account
\* for that account.
C18_witness ==
    /\ last.op = "login" /\ last.result = "Ok"
    /\ \E t \in DOMAIN sessions :
          /\ t # last.value[1]
          /\ sessions[t] = sessions[last.value[1]]
          /\ retrieve_account_result(t, "ChangePassword") =
                 Returned("retrieve_account", "Ok", <<sessions[t]>>)
          /\ retrieve_account_result(last.value[1], "ChangePassword") =
                 Returned("retrieve_account", "Ok", <<sessions[t]>>)

\* C19: a successful login(u, p) returns a token whose session row holds
\* the id of the stored account with the username u, and
\* retrieve_account(token, ChangePassword) can only return Ok with that
\* id.  A session row that a step keeps still holds the same account id,
\* that account is still stored under the same username, and
\* retrieve_account(token, ChangePassword) still returns Ok with that id.
C19_token_maps_to_login_account ==
    [][/\ (last'.op = "login" /\ last'.result = "Ok") =>
            \A u \in Usernames, p \in Passwords :
                login(u, p) =>
                    \E a \in DOMAIN accounts :
                        /\ accounts[a].username = u
                        /\ sessions'[last'.value[1]] = a
                        /\ (~ENABLED (/\ retrieve_account(last.value[1],
                                                          "ChangePassword")
                                      /\ last' # Returned("retrieve_account",
                                                          "Ok", <<a>>)))'
       /\ \A t \in DOMAIN sessions \cap DOMAIN sessions' :
            /\ sessions'[t] = sessions[t]
            /\ sessions[t] \in DOMAIN accounts'
            /\ accounts'[sessions[t]].username = accounts[sessions[t]].username
            /\ retrieve_account_result(t, "ChangePassword")' =
                   Returned("retrieve_account", "Ok", <<sessions[t]>>)]_vars

\* C19 witness: login has returned a token for an account that is not the
\* only one stored and has an owner; retrieve_account returns that account
\* for the token.
C19_witness ==
    /\ last.op = "login" /\ last.result = "Ok"
    /\ accounts[sessions[last.value[1]]].owner_id # None
    /\ retrieve_account_result(last.value[1], "ChangePassword") =
           Returned("retrieve_account", "Ok", <<sessions[last.value[1]]>>)

\* C20: after delete_account(o, a) succeeds on a stored account a, a is
\* not stored; login with the username a had can only end with
\* UserNotFound, whatever the password; and retrieve_account on a token
\* whose session row held a can only end with InvalidToken, for both
\* purposes.  A username no account has comes into use again only by a
\* successful create_account or create_site_admin, and a token without a
\* session row gets one only by a login that returns it.
C20_deleted_account_is_gone ==
    [][/\ (last'.op = "delete_account" /\ last'.result = "Ok") =>
            \A o \in AccountIds, a \in AccountIds :
                (a \in DOMAIN accounts /\ delete_account(o, a)) =>
                    /\ a \notin DOMAIN accounts'
                    /\ \A u \in Usernames, p \in Passwords :
                          accounts[a].username = u =>
                              (~ENABLED (/\ login(u, p)
                                         /\ last'.result # "UserNotFound"))'
                    /\ \A t \in DOMAIN sessions,
                          purpose \in SessionRetrievalPurpose :
                          sessions[t] = a =>
                              (~ENABLED (/\ retrieve_account(t, purpose)
                                         /\ last'.result # "InvalidToken"))'
       /\ \A u \in Usernames :
            (~username_taken(u) /\ username_taken(u)') =>
                /\ last'.op \in {"create_account", "create_site_admin"}
                /\ last'.result = "Ok"
       /\ \A t \in Tokens :
            (t \notin DOMAIN sessions /\ t \in DOMAIN sessions') =>
                last' = Returned("login", "Ok", <<t>>)]_vars

\* C20 witness: delete_account has succeeded; the SiteAdmin is left, a
\* username is free and no session row is left.
C20_witness ==
    /\ last = Returned("delete_account", "Ok", None)
    /\ \E r \in DOMAIN accounts : accounts[r].role = "SiteAdmin"
    /\ \E u \in Usernames : ~username_taken(u)
    /\ DOMAIN sessions = {}

\* C21: every session row holds one stored account, and a login keeps
\* every session row there was with the account it held.  A login whose
\* password is accepted and whose freshly drawn token is in a session row
\* returns Other and leaves the sessions as they were; a login returns Ok
\* only with a token that no session row had.
C21_session_tokens_unique ==
    [][/\ \A t \in DOMAIN sessions' : sessions'[t] \in DOMAIN accounts'
       /\ last'.op = "login" =>
            \A u \in Usernames, p \in Passwords, session \in Tokens :
                login_session(u, p, session) =>
                    /\ \A t \in DOMAIN sessions :
                          t \in DOMAIN sessions' /\ sessions'[t] = sessions[t]
                    /\ (session \in DOMAIN sessions
                        /\ last'.result \notin LoginRefused) =>
                          (last'.result = "Other" /\ sessions' = sessions)
                    /\ last'.result = "Ok" =>
                          /\ session \notin DOMAIN sessions
                          /\ last'.value = <<session>>]_vars

\* C21 witness: a login with an accepted password has drawn a token that
\* is in a session row and was refused with Other; the row is stored, and
\* more than one account is.
C21_witness ==
    /\ last = Returned("login", "Other", None)
    /\ DOMAIN sessions # {}
    /\ Cardinality(DOMAIN accounts) > 1

\* C22: a create_account call that has passed its owner checks and whose
\* username a stored account already has ends with Other and leaves the
\* accounts as they were, whether the account of that name was stored before
\* the call began or was created by another call while this one was in
\* flight; so no two stored accounts have the same username, and of two
\* calls for one username at most one returns Ok.
C22_usernames_unique ==
    [][/\ \A a \in DOMAIN accounts', b \in DOMAIN accounts' :
            accounts'[a].username = accounts'[b].username => a = b
       /\ last'.op = "create_account" =>
            /\ \A call \in DOMAIN pending :
                  (/\ pending[call].op = "create_account"
                   /\ username_taken(pending[call].username)
                   /\ create_account_insert(call)) =>
                        (last'.result = "Other" /\ accounts' = accounts)
            /\ \A owner_id \in DOMAIN accounts,
                  create \in InterleavedCreates :
                  (/\ can_own(accounts[owner_id].role, create[1])
                   /\ username_taken(create[2])
                   /\ create_account(owner_id, create[1], create[2])) =>
                        (last'.result = "Other" /\ accounts' = accounts)]_vars

\* A create_account call is in flight, past its owner checks, and another
\* create_account call has just returned Ok for the username it is about to
\* insert.
C22_witness ==
    /\ last.op = "create_account"
    /\ last.result = "Ok"
    /\ \E call \in DOMAIN pending :
          /\ pending[call].op = "create_account"
          /\ pending[call].owner_id \in DOMAIN accounts
          /\ last.value[1] \in DOMAIN accounts
          /\ accounts[last.value[1]].username = pending[call].username

\* C27: a change_password call returns Ok only if, when its UPDATE is
\* applied, the account is stored and current_password is the password of
\* the credential stored then; the UPDATE never replaces a credential that
\* another call wrote after the comparison.
C27_change_password_atomic ==
    [][\A call \in DOMAIN pending :
          (/\ pending[call].op = "change_password"
           /\ change_password_execute(call)
           /\ last'.result = "Ok") =>
                LET account_id == pending[call].account_id
                IN  /\ account_id \in DOMAIN accounts
                    /\ accounts[account_id].password_hash =
                          hash_password(pending[call].current_password,
                                        accounts[account_id].password_salt)]_vars

C29_sessions_only_by_login ==
    [][/\ \A t \in DOMAIN sessions' :
            /\ sessions'[t] \in DOMAIN accounts'
            /\ retrieve_account_result(t, "ChangePassword")' =
                  Returned("retrieve_account", "Ok", <<sessions'[t]>>)
       /\ \A call \in DOMAIN pending' \ DOMAIN pending :
            pending'[call].op = "login" =>
                /\ \E username \in Usernames, password \in Passwords :
                        login_select(call, username, password)
                /\ \A username \in Usernames, password \in Passwords :
                        login_select(call, username, password) =>
                            LET user_id == pending'[call].user_id
                            IN  /\ user_id \in DOMAIN accounts
                                /\ accounts[user_id].username = username
                                /\ accounts[user_id].password_hash =
                                      hash_password(password,
                                          accounts[user_id].password_salt)
       /\ \A t \in DOMAIN sessions' :
            (t \notin DOMAIN sessions \/ sessions'[t] # sessions[t]) =>
                /\ last' = Returned("login", "Ok", <<t>>)
                /\ \/ \E call \in DOMAIN pending :
                        /\ pending[call].op = "login"
                        /\ login_insert(call)
                        /\ sessions'[t] = pending[call].user_id
                   \/ \E username \in Usernames, password \in Passwords :
                        /\ login(username, password)
                        /\ username_taken(username)
                        /\ \A a \in DOMAIN accounts :
                              accounts[a].username = username =>
                                /\ sessions'[t] = a
                                /\ accounts[a].password_hash =
                                      hash_password(password,
                                                    accounts[a].password_salt)
       /\ \A call \in DOMAIN pending :
            (/\ pending[call].op = "login"
             /\ pending[call].user_id \notin DOMAIN accounts
             /\ login_insert(call)) =>
                (last'.result = "Other" /\ sessions' = sessions)]_vars

\* delete_account has just deleted the account whose credential a login call
\* in flight has found to match.
C29_witness ==
    /\ last = Returned("delete_account", "Ok", None)
    /\ \E call \in DOMAIN pending :
          /\ pending[call].op = "login"
          /\ pending[call].user_id \notin DOMAIN accounts

\* C23: update_ambulance(id, location, fetched) writes location and
\* last_update of the ambulance of that id exactly when it is stored and
\* fetched is strictly after its last_update, and returns Ok then; for a
\* stored ambulance with fetched not after its last_update it returns Ok and
\* leaves the row as it was; for an id that is not stored it returns
\* AmbulanceNotFound and changes nothing.  No other row is written, and
\* get_ambulance returns the row as update_ambulance left it.
C23_update_ambulance ==
    [][last'.op = "update_ambulance" =>
          \A id \in AmbulanceIds, location \in Points, fetched \in Times :
              update_ambulance(id, location, fetched) =>
                  /\ DOMAIN ambulances' = DOMAIN ambulances
                  /\ \A a \in DOMAIN ambulances \ {id} :
                        ambulances'[a] = ambulances[a]
                  /\ IF id \notin DOMAIN ambulances
                     THEN /\ last'.result = "AmbulanceNotFound"
                          /\ ambulances' = ambulances
                     ELSE /\ last'.result = "Ok"
                          /\ ambulances'[id].ambulance_name =
                                ambulances[id].ambulance_name
                          /\ IF ambulances[id].last_update < fetched
                             THEN /\ (ENABLED (get_ambulance(id)
                                       /\ last'.value =
                                            Some([id |-> id,
                                                  name |-> ambulances[id].ambulance_name,
                                                  location |-> location,
                                                  last_updated |-> fetched])))'
                             ELSE ambulances'[id] = ambulances[id]]_vars

\* update_ambulance has returned Ok for a stored ambulance; another ambulance
\* is stored beside it.
C23_witness ==
    /\ last = Returned("update_ambulance", "Ok", None)
    /\ DOMAIN ambulances = AmbulanceIds
    /\ \E a \in DOMAIN ambulances, b \in DOMAIN ambulances :
          /\ ambulances[a].last_update > ambulances[b].last_update
          /\ ambulances[a].location # ambulances[b].location

\* C24: after set_settings(user, s) has returned Ok for a stored account,
\* get_settings(user) returns s, hospital location and default ETA alert,
\* whatever the settings were before; for an account that is not stored
\* get_settings, set_settings and get_phones return UserNotFound and change
\* nothing.
C24_settings_round_trip ==
    [][/\ last'.op = "set_settings" =>
            \A user_id \in AccountIds, settings \in UserSettings :
                set_settings(user_id, settings) =>
                    /\ last'.result = "Ok" =>
                          (ENABLED (/\ get_settings(user_id)
                                    /\ last' = Returned("get_settings", "Ok",
                                                        <<settings>>)))'
                    /\ user_id \notin DOMAIN accounts =>
                          /\ last'.result \in {"UserNotFound", "Other"}
                          /\ accounts' = accounts
                          /\ phones' = phones
       /\ last'.op \in {"get_settings", "get_phones"} =>
            \A user_id \in AccountIds \ DOMAIN accounts :
                (get_settings(user_id) \/ get_phones(user_id)) =>
                    /\ last'.result = "UserNotFound"
                    /\ accounts' = accounts
                    /\ phones' = phones]_vars

\* C25: delete_phone(user, phone_id) removes the entry and returns Ok
\* exactly when an entry of that id is stored for that user; otherwise - the
\* user is not stored, the entry is another user's, or it was deleted before
\* - it returns PhoneNotFound and removes nothing.  No other entry is
\* removed, and a second delete_phone of the same entry returns
\* PhoneNotFound.
C25_delete_phone ==
    [][last'.op = "delete_phone" =>
          \A user_id \in AccountIds, phone_id \in PhoneIds :
              delete_phone(user_id, phone_id) =>
                  /\ accounts' = accounts
                  /\ IF /\ phone_id \in DOMAIN phones
                        /\ phones[phone_id].user_id = user_id
                     THEN /\ last'.result = "Ok"
                          /\ phones' = Delete(phones, {phone_id})
                          /\ (ENABLED (/\ delete_phone(user_id, phone_id)
                                       /\ last'.result = "PhoneNotFound"
                                       /\ phones' = phones))'
                     ELSE /\ last'.result = "PhoneNotFound"
                          /\ phones' = phones]_vars

\* delete_phone has been refused for an entry that is stored for another
\* user, while a third account is not stored.
C25_witness ==
    /\ last = Returned("delete_phone", "PhoneNotFound", None)
    /\ \E p \in DOMAIN phones, q \in DOMAIN phones :
          phones[p].user_id # phones[q].user_id
    /\ DOMAIN accounts # AccountIds

\* C26: new_phone(user, phone, label) for a stored user returns Ok and adds
\* one entry (user, phone, label) under a phone_id no stored entry has, also
\* when an entry of the same number and label is stored, and changes no
\* other entry, so get_phones(user) returns the entries it returned before
\* and the new one; for a user that is not stored it returns UserNotFound
\* and adds nothing.
C26_new_phone ==
    [][last'.op = "new_phone" =>
          \A user_id \in AccountIds, phone \in PhoneNumbers, label \in Labels :
              new_phone(user_id, phone, label) =>
                  /\ accounts' = accounts
                  /\ IF user_id \in DOMAIN accounts
                     THEN /\ last'.result = "Ok"
                          /\ last'.value[1].number = phone
                          /\ last'.value[1].label = label
                          /\ \E phone_id \in PhoneIds :
                                 /\ phone_id = last'.value[1].phone_id
                                 /\ phone_id \notin DOMAIN phones
                                 /\ phones' = Insert(phones, phone_id,
                                                     [user_id |-> user_id,
                                                      phone |-> phone,
                                                      label |-> Some(label)])
                                 /\ (ENABLED (/\ get_phones(user_id)
                                              /\ last'.result = "Ok"
                                              /\ [phone_id |-> phone_id,
                                                   label |-> label,
                                                   number |-> phone]
                                                      \in last'.value[1]))'
                                 /\ \A p \in PhoneIds :
                                       (ENABLED (/\ get_phones(user_id)
                                                 /\ \E e \in last'.value[1] :
                                                        e.phone_id = p))'
                                       <=> \/ p = phone_id
                                           \/ ENABLED
                                                (/\ get_phones(user_id)
                                                 /\ \E e \in last'.value[1] :
                                                        e.phone_id = p)
                     ELSE /\ last'.result = "UserNotFound"
                          /\ phones' = phones]_vars

\* new_phone has returned Ok and two entries of one user have the same
\* number and label.
C26_witness ==
    /\ last.op = "new_phone"
    /\ last.result = "Ok"
    /\ \E p \in DOMAIN phones, q \in DOMAIN phones :
          /\ p # q
          /\ phones[p] = phones[q]
          /\ last.value[1].phone_id \in {p, q}
    /\ DOMAIN accounts # AccountIds

\* C30: in every call of random_password, each character pushed so far is
\* ALLOWED_CHARS[d mod 76] for a draw d the call made for that position, so
\* that different positions are determined by different draws; all
\* characters are of the alphabet, and the call returns exactly `length` of
\* them.
C30_random_password_fresh_draws ==
    /\ \A call \in DOMAIN pending :
          pending[call].op = "random_password" =>
              LET local == pending[call]
              IN  /\ Len(local.password) <= local.length
                  /\ \A i \in 1..Len(local.password) :
                        /\ \E c \in 1..Len(ALLOWED_CHARS) :
                              local.password[i] = ALLOWED_CHARS[c]
                        /\ \E k \in 1..Len(local.draws) :
                              /\ local.draws[k].position = i
                              /\ local.password[i] =
                                    ALLOWED_CHARS[
                                        (local.draws[k].draw
                                            % Len(ALLOWED_CHARS)) + 1]
    /\ last.op = "random_password" =>
          \A i \in 1..Len(last.value[1]) :
              \E c \in 1..Len(ALLOWED_CHARS) :
                  last.value[1][i] = ALLOWED_CHARS[c]

\* C32: get_settings panics in no reachable state: for every stored account,
\* whatever durations set_settings has accepted with Ok for it, get_settings
\* returns Ok (the assertions of convert_interval hold on the stored
\* interval), and no get_settings call has ended in a panic.
C32_get_settings_never_panics ==
    /\ last.op = "get_settings" => last.result # "panic"
    /\ \A user_id \in DOMAIN accounts :
          /\ convert_interval_asserts(accounts[user_id].pref_eta)
          /\ ENABLED (get_settings(user_id) /\ last'.result = "Ok")

\* C31: an account that is stored before and after a step has the same
\* username, role and owner_id under the same id, whatever the step is:
\* reset_password, change_password, login, destroy_session,
\* retrieve_account, set_settings, or the creation or deletion of another
\* account; a step that creates an account leaves every stored account as it
\* was.
C31_account_fields_immutable ==
    [][/\ \A a \in DOMAIN accounts \cap DOMAIN accounts' :
            /\ accounts'[a].username = accounts[a].username
            /\ accounts'[a].role = accounts[a].role
            /\ accounts'[a].owner_id = accounts[a].owner_id
       /\ last'.op \in {"create_account", "create_site_admin"} =>
            \A a \in DOMAIN accounts :
                a \in DOMAIN accounts' /\ accounts'[a] = accounts[a]]_vars

\* set_settings has returned Ok while an owned account that has changed its
\* password and holds a session is stored with settings of its own.
C31_witness ==
    /\ last = Returned("set_settings", "Ok", None)
    /\ \E a \in DOMAIN accounts :
          /\ accounts[a].owner_id # None
          /\ accounts[a].pref_eta # pref_eta_default
          /\ ~accounts[a].password_reset_needed
          /\ \E t \in DOMAIN sessions : sessions[t] = a

\* C35: a reset_password or change_password step leaves the sessions as
\* they were, and retrieve_account(token, ChangePassword) returns Ok with
\* the account of the token, after the step as before it, for every token
\* stored; a stored token is removed only by a destroy_session or
\* delete_account step.
C35_credential_change_keeps_sessions ==
    [][/\ last'.op \in {"reset_password", "change_password"} =>
            /\ sessions' = sessions
            /\ \A t \in DOMAIN sessions, a \in DOMAIN accounts :
                  sessions[t] = a =>
                      /\ ENABLED (/\ retrieve_account(t, "ChangePassword")
                                  /\ last' = Returned("retrieve_account",
                                                      "Ok", <<a>>))
                      /\ (ENABLED (/\ retrieve_account(t, "ChangePassword")
                                   /\ last' = Returned("retrieve_account",
                                                       "Ok", <<a>>)))'
       /\ \A t \in DOMAIN sessions :
            t \notin DOMAIN sessions' =>
                /\ last'.op \in {"destroy_session", "delete_account"}
                /\ last'.result = "Ok"]_vars

\* reset_password has returned Ok for an account that has changed its
\* password before and holds a session.
C35_witness ==
    /\ last.op = "reset_password"
    /\ last.result = "Ok"
    /\ \E t \in DOMAIN sessions :
          /\ sessions[t] \in changed
          /\ accounts[sessions[t]].password_hash =
                hash_password(last.value[1],
                              accounts[sessions[t]].password_salt)

\* C33: a calculate_eta call that returns Ok returns an ETA of the wrapped
\* finder and appends exactly one row to archive_etas, of the ambulance id,
\* from, to and that ETA, leaving the rows before it as they were; a call
\* that returns an error - the finder's, or that of the failed INSERT in
\* place of the ETA the finder calculated - appends no row.
C33_archive_eta ==
    [][last'.op = "calculate_eta" =>
          \A ambulance_id \in AmbulanceIds, from \in Points, to \in Points :
              calculate_eta(ambulance_id, from, to) =>
                  IF last'.result = "Ok"
                  THEN /\ last'.value[1] \in
                              {inner.eta :
                                  inner \in {r \in EtaFinder_calculate_eta(
                                                       ambulance_id, from, to) :
                                                ~r.is_err}}
                       /\ Len(archive_etas') = Len(archive_etas) + 1
                       /\ SubSeq(archive_etas', 1, Len(archive_etas))
                              = archive_etas
                       /\ LET row == archive_etas'[Len(archive_etas')]
                          IN  /\ row.ambulance_id = ambulance_id
                              /\ wkb_Decode(row.current_location).geometry
                                    = Some(from)
                              /\ wkb_Decode(row.destination).geometry
                                    = Some(to)
                              /\ convert_interval(row.eta) = last'.value[1]
                  ELSE /\ last'.result = "Err"
                       /\ last'.value \in {<<"finder">>, <<"insert">>}
                       /\ archive_etas' = archive_etas]_vars

\* calculate_eta has returned the error of a failed INSERT after a call
\* that archived its ETA.
C33_witness ==
    /\ last = Returned("calculate_eta", "Err", <<"insert">>)
    /\ Len(archive_etas) = 1

\* C34: in every state, whatever the order in which the fixes of an
\* ambulance arrived, its stored last_update is the latest instant among
\* the fix it was added with and the fixes update_ambulance was called
\* with, and its stored location is one that was supplied with that
\* instant; no step makes a stored last_update earlier.
C34_last_update_is_maximum ==
    [][\A a \in DOMAIN ambulances' :
          /\ a \in DOMAIN fixes'
          /\ \A fix \in fixes'[a] :
                fix.fetched <= ambulances'[a].last_update
          /\ \E fix \in fixes'[a] :
                /\ fix.fetched = ambulances'[a].last_update
                /\ wkb_Encode(fix.location) = ambulances'[a].location
          /\ a \in DOMAIN ambulances =>
                ambulances[a].last_update <= ambulances'[a].last_update]_vars

\* update_ambulance has returned Ok for an ambulance whose fixes arrived out
\* of order: a fix earlier than the stored one, at another location, is
\* among those it was called with, and so is one later than the fix it was
\* added with.
C34_witness ==
    /\ last = Returned("update_ambulance", "Ok", None)
    /\ \E a \in DOMAIN ambulances :
          /\ Cardinality({fix.fetched : fix \in fixes[a]}) = MaxTime + 1
          /\ \E fix \in fixes[a] :
                /\ fix.fetched < ambulances[a].last_update
                /\ wkb_Encode(fix.location) # ambulances[a].location

====
